---- MODULE Spec2Model ----
(***************************************************************************)
(* StorageCleaner: the file scoring and duplicate detection pipeline       *)
(* (core/ml_advisor.py, ml_scan) over a Linux file tree.                   *)
(*                                                                         *)
(* One behaviour is one invocation ml_scan(root, min_size_mb, max_depth,   *)
(* progress_cb) with a progress callback supplied.  The file tree, the     *)
(* outcome of every stat and of every read, are fixed by the initial       *)
(* state; the actions are the phases of ml_scan in program order.          *)
(*                                                                         *)
(* Sizes are written in MiB (the code compares st_size with                *)
(* min_size_mb * 1024 * 1024 and otherwise only adds, multiplies and       *)
(* standardises sizes), times in whole time units before `now`.  In a scan *)
(* with min_size_mb = 0 the files are smaller than 1 MiB and their sizes   *)
(* are written in blocks of _HASH_BLOCK bytes.                             *)
(*                                                                         *)
(* core/cleaner.py, delete_contents, is modelled next to it over a file    *)
(* system of its own (CleanSpec).                                          *)
(***************************************************************************)
EXTENDS Integers, Sequences, FiniteSets, TLC

VARIABLES
    root_ok,            \* the scan root exists and is a directory
    tree,               \* the files under the root, in os.walk order
    min_size_mb,        \* the argument min_size_mb of ml_scan
    pc,                 \* position of ml_scan
    progress,           \* the values passed to progress_cb, in call order
    raw_files,          \* Phase 1: the collected records
    stats,              \* Phase 2: size/age distribution
    hashed,             \* paths handed to _partial_md5
    dup_map,            \* Phase 3: path -> group id
    newest_in_group,    \* Phase 3: group id -> path of the newest member
    total_dup_reclaim,  \* Phase 3
    duplicates_found,   \* Phase 3
    scored,             \* Phases 4-6: every FileInfo built, in raw_files order
    results,            \* the FileInfo kept (non-protected)
    total_reclaim,
    outcome,            \* "running" | "returned" | "raised", and the ScanResult
    fs,                 \* delete_contents: the entries of the file system
    del_pc,             \* delete_contents: position
    del_queue,          \* delete_contents: the unlink and rmdir calls ahead
    deleted_files,
    deleted_dirs,
    errors,
    delete_result       \* the tuple delete_contents returned, None before

scan_vars == <<root_ok, tree, min_size_mb, pc, progress, raw_files, stats,
               hashed, dup_map, newest_in_group, total_dup_reclaim,
               duplicates_found, scored, results, total_reclaim, outcome>>

clean_vars == <<fs, del_pc, del_queue, deleted_files, deleted_dirs, errors,
                delete_result>>

vars == <<scan_vars, clean_vars>>

----------------------------------------------------------------------------
(* Bounds of the model *)

MaxFiles == 3          \* files in the tree of a scan
MaxScanned == 24       \* files in the tree of a long scan (LongSpec)
MaxRuleFiles == 2      \* files in the tree of a scan of RuleSpec

Sizes == {1, 2}         \* st_size of a collected file, MiB
Mtimes == {1, 2}        \* st_mtime
Contents == {1, 2}      \* what the head and tail blocks of a file hold
Now == 5                \* time.time() during the scan

max_depth == 6

(* _SECONDS_IN_YEAR: the times of the model are in years *)
SECONDS_IN_YEAR == 1

----------------------------------------------------------------------------
(* Strings: str.lower() on the path segments and suffixes of the model *)

Lower(s) ==
    CASE s = "Downloads" -> "downloads"
      [] s = "ETC"       -> "etc"
      [] s = "Tmp"       -> "tmp"
      [] s = ".TMP"      -> ".tmp"
      [] s = ".SO"       -> ".so"
      [] s = "PackageKit" -> "packagekit"
      [] s = "Trash"     -> "trash"
      [] OTHER           -> s

LowerAll(segs) == [i \in 1..Len(segs) |-> Lower(segs[i])]

(* A path is the directory's segments below "/", and the file name split as *)
(* pathlib splits it: stem and suffix.                                      *)
IsPrefix(p, q) == Len(p) <= Len(q) /\ \A i \in 1..Len(p) : p[i] = q[i]


----------------------------------------------------------------------------
(* core/file_categories.py: the Linux tables *)

SAFE == "safe"
REVIEW == "review"
UNKNOWN == "unknown"
PROTECTED == "protected"

(* CATEGORIES[key].default_safety *)
CategorySafety(key) ==
    CASE key \in {"cache_temp", "duplicate", "log_file", "package_cache",
                  "build_artifact"} -> SAFE
      [] OTHER -> REVIEW

(* CATEGORIES[key].label *)
CategoryLabel(key) ==
    CASE key = "cache_temp"     -> "Cache & Temp Files"
      [] key = "duplicate"      -> "Duplicate Files"
      [] key = "old_download"   -> "Old Downloads"
      [] key = "large_unused"   -> "Large Unused Files"
      [] key = "log_file"       -> "Log Files"
      [] key = "package_cache"  -> "Package Cache"
      [] key = "old_media"      -> "Old Media Files"
      [] key = "archive"        -> "Archive Files"
      [] key = "build_artifact" -> "Build Artifacts"

(* EXTENSION_CATEGORIES; "" stands for a missing key *)
ExtensionCategory(ext) ==
    CASE ext \in {".tmp", ".temp", ".cache", ".bak", ".old", ".dmp", ".swp",
                  ".swo"} -> "cache_temp"
      [] ext = ".log" -> "log_file"
      [] ext \in {".iso", ".zip", ".rar", ".7z", ".tar", ".gz", ".bz2", ".xz",
                  ".tgz", ".tbz2", ".zst"} -> "archive"
      [] ext \in {".mp4", ".avi", ".mkv", ".mov", ".wmv", ".flv", ".webm",
                  ".flac", ".wav", ".m4a", ".m4v"} -> "old_media"
      [] ext \in {".o", ".obj", ".pyc", ".pyo", ".class", ".elc", ".whl"}
                  -> "build_artifact"
      [] OTHER -> ""

JUNK_EXTENSIONS ==
    {".tmp", ".temp", ".cache", ".bak", ".old", ".dmp", ".swp", ".swo", ".log"}

JUNK_FOLDER_NAMES == {"downloads", "download"}

TEMP_FOLDER_NAMES == {"temp", "tmp", "cache", ".cache", "__pycache__"}

ArchiveExtensions == {".iso", ".zip", ".rar", ".7z", ".tar", ".gz"}

(* get_protected_dirs(), the branch taken when not IS_WINDOWS *)
get_protected_dirs ==
    { <<"usr", "bin">>, <<"usr", "lib">>, <<"usr", "lib64">>, <<"usr", "sbin">>,
      <<"usr", "share">>, <<"usr", "include">>,
      <<"bin">>, <<"sbin">>, <<"lib">>, <<"lib64">>, <<"lib32">>,
      <<"etc">>, <<"boot">>,
      <<"var", "lib", "dpkg">>, <<"var", "lib", "apt", "lists">>,
      <<"var", "lib", "rpm">>,
      <<"snap", "core">>, <<"snap", "snapd">>,
      <<"proc">>, <<"sys">>, <<"dev">>, <<"run">> }

get_protected_extensions ==
    {".conf", ".cfg", ".ini", ".service", ".timer", ".socket", ".mount",
     ".so", ".ko", ".deb", ".rpm", ".desktop"}

(* Path.home() of the user running the scan *)
Home == <<"home", "u">>

(* get_known_junk_dirs() under IS_LINUX, in list order *)
get_known_junk_dirs ==
    << [path |-> Home \o <<".cache">>, category |-> "cache_temp"],
       [path |-> <<"var", "cache", "apt", "archives">>, category |-> "package_cache"],
       [path |-> <<"var", "cache", "apt", "archives", "partial">>, category |-> "package_cache"],
       [path |-> <<"var", "cache", "PackageKit">>, category |-> "package_cache"],
       [path |-> <<"var", "lib", "snapd", "cache">>, category |-> "package_cache"],
       [path |-> Home \o <<".local", "share", "Trash">>, category |-> "cache_temp"],
       [path |-> <<"var", "log">>, category |-> "log_file"],
       [path |-> <<"tmp">>, category |-> "cache_temp"],
       [path |-> <<"var", "tmp">>, category |-> "cache_temp"],
       [path |-> <<"var", "lib", "docker", "overlay2">>, category |-> "cache_temp"] >>

----------------------------------------------------------------------------
(* Paths.  A path is kept as pathlib splits it: the directory segments      *)
(* below "/", the stem and the suffix of the file name.                      *)

(* [x.lower() for x in Path(path).parts], and path.lower() split at os.sep *)
PartsLower(p) == LowerAll(p.dir) \o <<Lower(p.stem) \o Lower(p.ext)>>

(* _is_under_protected_dir(path_lower, protected):                          *)
(* path_lower.startswith(d + os.sep) or path_lower == d                     *)
IsUnderProtectedDir(parts_lower, protected) ==
    \E d \in protected : IsPrefix(d, parts_lower)

(* entry["path"].lower() of every entry *)
KnownJunkLower ==
    [i \in 1..Len(get_known_junk_dirs) |->
        [path |-> LowerAll(get_known_junk_dirs[i].path),
         category |-> get_known_junk_dirs[i].category]]

(* _is_in_known_junk_dir: the first entry of the list that matches *)
JunkMatches(parts_lower, junk_lower) ==
    { i \in 1..Len(junk_lower) : IsPrefix(junk_lower[i].path, parts_lower) }

Minimum(S) == CHOOSE x \in S : \A y \in S : x <= y

Maximum(S) == CHOOSE x \in S : \A y \in S : x >= y

IsInKnownJunkDir(parts_lower, junk_lower) ==
    LET m == JunkMatches(parts_lower, junk_lower)
    IN  IF m = {} THEN [found |-> FALSE, category |-> ""]
        ELSE [found |-> TRUE, category |-> junk_lower[Minimum(m)].category]


----------------------------------------------------------------------------
(* The file tree under the root "/".  A file is                             *)
(*   path    : where it is                                                  *)
(*   stat_ok : fp.stat() succeeds                                           *)
(*   size, mtime, atime : st_size (MiB), st_mtime, st_atime                 *)
(*   readable : open() and read() succeed                                   *)
(*   content : its bytes, as the sequence of its blocks of _HASH_BLOCK      *)
(*             bytes; for a file of more than three blocks: the first       *)
(*             block, all that lies between, the last block                 *)
(* Attributes the scan never reads (those of a file it does not stat, or    *)
(* drops for its size) are fixed.                                           *)

Stem(i) == "f" \o ToString(i)

DataDir == Home \o <<"data">>
JunkDir == <<"tmp", "Downloads">>
EtcDir == <<"etc">>
DeepDir == Home \o <<"a", "b", "c", "d", "e">>

(* A file of 1 MiB or more: c is what its blocks hold, 0 when the file      *)
(* cannot be read                                                           *)
File(dir, i, ext, ok, size, mtime, c) ==
    [path |-> [dir |-> dir, stem |-> Stem(i), ext |-> ext],
     stat_ok |-> ok, size |-> size, mtime |-> mtime, atime |-> mtime,
     readable |-> c # 0, content |-> <<c, c, c>>]

(* The directories that hold files, in the order os.walk reaches them, and  *)
(* what the i-th file of the walk can be when it lies in the k-th of them.  *)
Dirs == <<EtcDir, DataDir, DeepDir, JunkDir>>

FilesAt(k, i) ==
    CASE Dirs[k] = EtcDir  -> { File(EtcDir, i, ".log", TRUE, 2, 1, 1) }
      [] Dirs[k] = DeepDir -> { File(DeepDir, i, ".TMP", TRUE, 2, 1, 1) }
      [] Dirs[k] = DataDir ->
            { File(DataDir, i, ".bin", TRUE, s, m, c) :
                s \in Sizes, m \in Mtimes, c \in Contents }
            \cup { File(DataDir, i, ".SO", TRUE, s, m, 1) : s \in Sizes, m \in Mtimes }
      [] OTHER ->
            { File(JunkDir, i, ".TMP", TRUE, s, m, 1) : s \in Sizes, m \in Mtimes }
            \cup { File(JunkDir, i, ".TMP", FALSE, 1, 1, 1),     \* vanished
                   File(JunkDir, i, ".TMP", TRUE, 0, 1, 1) }     \* too small

DirIndex(f) == CHOOSE k \in 1..Len(Dirs) : Dirs[k] = f.path.dir

(* os.walk lists the files of one directory together and never returns to a *)
(* directory it has left: f can follow the files of t in walk order.        *)
WalkOrdered(t, f) ==
    IF t = <<>> THEN TRUE ELSE DirIndex(t[Len(t)]) <= DirIndex(f)

----------------------------------------------------------------------------
(* Phase 1 (ml_scan, lines 131-180) *)

Depth(dir) == Len(dir)      \* len(Path(dirpath).resolve().parts) - root_parts

(* os.walk cannot list dir (os.scandir raises): it calls onerror and yields *)
(* neither dir nor anything below it                                        *)
LockedDir == Home \o <<"locked">>

ListFails(dir) == IsPrefix(LockedDir, dir)

(* os.walk from the root: a directory is listed unless an ancestor was cut  *)
(* off (dirnames[:] = []); its files are read unless it is itself too deep  *)
(* or protected.  Both tests are inherited by every descendant.             *)
(* DirSkipped with ">=" for ">" in the depth test *)
DirSkippedAtDepth(dir) ==
    \/ Depth(dir) >= max_depth
    \/ IsUnderProtectedDir(LowerAll(dir), get_protected_dirs)

DirSkipped(dir) ==
    \/ Depth(dir) > max_depth
    \/ IsUnderProtectedDir(LowerAll(dir), get_protected_dirs)

RawRecord(f) ==
    [path |-> f.path, size |-> f.size, atime |-> f.atime, mtime |-> f.mtime,
     ext |-> Lower(f.path.ext)]

(* Collected without the try/except around fp.stat(): the record of a file  *)
(* that vanished is built from whatever stat left behind                    *)
CollectedStatUnchecked(f, min_size) ==
    /\ ~ListFails(f.path.dir)
    /\ ~DirSkipped(f.path.dir)
    /\ ~(f.size < min_size)

(* min_size = min_size_mb * 1024 * 1024, in the unit of the sizes *)
Collected(f, min_size) ==
    /\ ~ListFails(f.path.dir)
    /\ ~DirSkipped(f.path.dir)
    /\ f.stat_ok
    /\ ~(f.size < min_size)

RECURSIVE Walk(_, _)
Walk(t, min_size) ==
    IF t = <<>> THEN <<>>
    ELSE (IF Collected(Head(t), min_size) THEN <<RawRecord(Head(t))>> ELSE <<>>)
         \o Walk(Tail(t), min_size)

(* delete_contents is not running *)
CleanerIdle ==
    /\ fs = {}
    /\ del_pc = "idle"
    /\ del_queue = <<>>
    /\ deleted_files = 0
    /\ deleted_dirs = 0
    /\ errors = 0
    /\ delete_result = <<>>

EmptyScanResult ==
    [files |-> <<>>, duplicates_found |-> 0, duplicate_space_reclaimable |-> 0,
     total_reclaimable |-> 0, category_summary |-> <<>>,
     files_scanned |-> 0]

NoStats == [n |-> 0]

(* NothingCollected with the early return left out *)
NothingCollectedNever(raw) == FALSE

(* if not raw_files: return ScanResult(files=[], ...), lines 176-180 *)
NothingCollected(raw) == raw = <<>>

Init ==
    /\ root_ok \in BOOLEAN
    /\ tree = <<>>
    /\ min_size_mb = 1
    /\ CleanerIdle
    /\ pc = "setup"
    /\ progress = <<>>
    /\ raw_files = <<>>
    /\ stats = NoStats
    /\ hashed = {}
    /\ dup_map = <<>>
    /\ newest_in_group = <<>>
    /\ total_dup_reclaim = 0
    /\ duplicates_found = 0
    /\ scored = <<>>
    /\ results = <<>>
    /\ total_reclaim = 0
    /\ outcome = [state |-> "running"]

(* Before the scan: the tree under an existing root gets one more file *)
AddFile ==
    /\ pc = "setup"
    /\ root_ok
    /\ Len(tree) < MaxFiles
    /\ \E k \in 1..Len(Dirs) : \E f \in FilesAt(k, Len(tree) + 1) :
          /\ WalkOrdered(tree, f)
          /\ tree' = Append(tree, f)
    /\ UNCHANGED <<clean_vars, min_size_mb, root_ok,
                   pc, progress, raw_files, stats, hashed, dup_map,
                   newest_in_group, total_dup_reclaim, duplicates_found,
                   scored, results, total_reclaim, outcome>>

(* lines 126-133: ml_scan is called; the tables are read and progress_cb(5) *)
(* is called                                                                *)
Begin ==
    /\ pc = "setup"
    /\ progress' = Append(progress, 5)
    /\ pc' = "collect"
    /\ UNCHANGED <<clean_vars, min_size_mb, root_ok,
                   tree, raw_files, stats, hashed, dup_map,
                   newest_in_group, total_dup_reclaim, duplicates_found,
                   scored, results, total_reclaim, outcome>>

(* lines 135-180: the walk, progress_cb(20), and the return of the empty    *)
(* result when nothing was collected.  os.walk hands the error of a root    *)
(* that cannot be listed to onerror, which drops it: the walk is empty.     *)
Collect ==
    /\ pc = "collect"
    /\ LET raw == IF root_ok THEN Walk(tree, min_size_mb) ELSE <<>>
       IN  /\ raw_files' = raw
           /\ progress' = Append(progress, 20)
           /\ IF NothingCollected(raw)
              THEN /\ outcome' = [state |-> "returned", result |-> EmptyScanResult]
                   /\ pc' = "done"
              ELSE /\ outcome' = outcome
                   /\ pc' = "stats"
    /\ UNCHANGED <<clean_vars, min_size_mb, root_ok,
                   tree, stats, hashed, dup_map, newest_in_group,
                   total_dup_reclaim, duplicates_found, scored, results,
                   total_reclaim>>

----------------------------------------------------------------------------
(* Phase 2 (lines 182-200).  statistics.mean and statistics.stdev are kept  *)
(* exactly, as integers: for the n values xs with sum S,                    *)
(*    mean = S / n,    stdev^2 = SS / (n^2 (n - 1)),   SS = sum (n x - S)^2  *)

RECURSIVE SumSeq(_)
SumSeq(xs) == IF xs = <<>> THEN 0 ELSE Head(xs) + SumSeq(Tail(xs))

SquaredDeviations(xs) ==
    LET n == Len(xs)
        S == SumSeq(xs)
    IN  SumSeq([i \in 1..n |-> (n * xs[i] - S) * (n * xs[i] - S)])

(* SdIsOne without "if sd == 0: sd = 1.0" *)
SdIsOneOnlySingle(xs) == Len(xs) <= 1

(* sd = stdev(xs) if len(xs) > 1 else 1.0; if sd == 0: sd = 1.0 *)
SdIsOne(xs) == IF Len(xs) > 1 THEN SquaredDeviations(xs) = 0 ELSE TRUE

Distribution(xs) ==
    [n |-> Len(xs), sum |-> SumSeq(xs), ss |-> SquaredDeviations(xs),
     sd_is_one |-> SdIsOne(xs)]

Sizes_(raw) == [i \in 1..Len(raw) |-> raw[i].size]

Ages(raw) == [i \in 1..Len(raw) |-> Now - raw[i].mtime]

ComputeStats(raw) ==
    [n |-> Len(raw), size |-> Distribution(Sizes_(raw)), age |-> Distribution(Ages(raw))]

Statistics ==
    /\ pc = "stats"
    /\ stats' = ComputeStats(raw_files)
    /\ progress' = Append(progress, 30)
    /\ pc' = "dups"
    /\ UNCHANGED <<clean_vars, min_size_mb, root_ok,
                   tree, raw_files, hashed, dup_map, newest_in_group,
                   total_dup_reclaim, duplicates_found, scored, results,
                   total_reclaim, outcome>>

----------------------------------------------------------------------------
(* Phase 3 (lines 202-242) *)

FileAtPath(t, path) == t[CHOOSE i \in 1..Len(t) : t[i].path = path]

(* _partial_md5: the digest of the blocks read, None (<<>>) when the file   *)
(* cannot be read.  Distinct data are taken to have distinct digests.       *)
None == <<>>

Md5(blocks) == <<"md5", blocks>>

(* BlocksRead reading the file to its end *)
BlocksReadWhole(c) == c

(* The data fed to the digest: f.read(_HASH_BLOCK); if size >               *)
(* _HASH_BLOCK * 2: f.seek(-_HASH_BLOCK, 2); f.read(_HASH_BLOCK).  Without  *)
(* the seek the second read goes on where the first one stopped.            *)
BlocksRead(c) ==
    LET first == IF Len(c) >= 1 THEN <<c[1]>> ELSE <<>>
        pos == IF Len(c) > 2 THEN Len(c) ELSE 2
        second == IF pos <= Len(c) THEN <<c[pos]>> ELSE <<>>
    IN  first \o second

(* PartialMd5 with the digest of no data for a file that cannot be read *)
PartialMd5OfNothing(t, path) ==
    LET f == FileAtPath(t, path)
    IN  IF ~f.readable THEN Md5(<<>>) ELSE Md5(BlocksRead(f.content))

PartialMd5(t, path) ==
    LET f == FileAtPath(t, path)
    IN  IF ~f.readable THEN None ELSE Md5(BlocksRead(f.content))

(* Opened with the file opened for writing: open(filepath, "wb") truncates *)
OpenedForWriting(f) == [f EXCEPT !.size = 0]

(* The file after "with open(filepath, 'rb') as f" and the reads and the    *)
(* seek of _partial_md5: a file opened for reading is left as it was        *)
Opened(f) == f

(* The tree after _partial_md5 was called on the paths of ps *)
AfterHashing(t, ps) ==
    [i \in 1..Len(t) |-> IF t[i].path \in ps THEN Opened(t[i]) ELSE t[i]]

(* The keys of a dict filled from ks, in insertion order *)
RECURSIVE DictKeys(_, _)
DictKeys(ks, seen) ==
    IF ks = <<>> THEN <<>>
    ELSE IF Head(ks) \in seen THEN DictKeys(Tail(ks), seen)
         ELSE <<Head(ks)>> \o DictKeys(Tail(ks), seen \cup {Head(ks)})

(* size_groups: one list of records per size, sizes in insertion order *)
SizeGroups(raw) ==
    LET keys == DictKeys([i \in 1..Len(raw) |-> raw[i].size], {})
    IN  [k \in 1..Len(keys) |-> SelectSeq(raw, LAMBDA f : f.size = keys[k])]

(* GroupIsHashed with the test of line 214 left out *)
GroupIsHashedAlways(group) == TRUE

(* if len(group) < 2: continue *)
GroupIsHashed(group) == ~(Len(group) < 2)

(* hash_buckets of one size group: the files whose digest is not None, one  *)
(* list per digest, digests in insertion order                              *)
HashBuckets(t, group) ==
    LET hs == [i \in 1..Len(group) |-> PartialMd5(t, group[i].path)]
        keys == DictKeys(SelectSeq(hs, LAMBDA h : h # None), {})
    IN  [k \in 1..Len(keys) |->
            SelectSeq(group, LAMBDA f : PartialMd5(t, f.path) = keys[k])]

(* BucketIsGroup with the test of the length left out *)
BucketIsGroupAlways(bucket) == TRUE

(* if len(bucket) < 2: continue *)
BucketIsGroup(bucket) == ~(Len(bucket) < 2)

RECURSIVE Flatten(_)
Flatten(ss) == IF ss = <<>> THEN <<>> ELSE Head(ss) \o Flatten(Tail(ss))

(* The buckets that become duplicate groups, in the order the two loops     *)
(* reach them: the g-th one gets dup_group_id g.                            *)
DuplicateBuckets(t, raw) ==
    LET groups == SizeGroups(raw)
        perGroup == [k \in 1..Len(groups) |->
                        IF GroupIsHashed(groups[k])
                        THEN SelectSeq(HashBuckets(t, groups[k]), BucketIsGroup)
                        ELSE <<>>]
    IN  Flatten(perGroup)

(* The paths handed to _partial_md5 (line 220) *)
HashedPaths(raw) ==
    LET groups == SizeGroups(raw)
    IN  UNION { { groups[k][i].path : i \in 1..Len(groups[k]) } :
                k \in { g \in 1..Len(groups) : GroupIsHashed(groups[g]) } }

(* Newest with min() for max() *)
NewestByMin(bucket) ==
    LET m == Minimum({ bucket[i].mtime : i \in 1..Len(bucket) })
    IN  bucket[Minimum({ i \in 1..Len(bucket) : bucket[i].mtime = m })]

(* max(bucket, key=lambda f: f["mtime"]): the first record of the largest   *)
(* mtime                                                                    *)
Newest(bucket) ==
    LET m == Maximum({ bucket[i].mtime : i \in 1..Len(bucket) })
    IN  bucket[Minimum({ i \in 1..Len(bucket) : bucket[i].mtime = m })]

(* BucketReclaim counting every copy: sz * len(bucket) *)
BucketReclaimAll(bucket) == bucket[1].size * Len(bucket)

(* total_dup_reclaim += sz * (len(bucket) - 1) *)
BucketReclaim(bucket) == bucket[1].size * (Len(bucket) - 1)

DupMapOf(buckets) ==
    LET paths == UNION { { buckets[g][i].path : i \in 1..Len(buckets[g]) } :
                         g \in 1..Len(buckets) }
    IN  [p \in paths |->
            Maximum({ g \in 1..Len(buckets) : \E i \in 1..Len(buckets[g]) :
                                                 buckets[g][i].path = p })]

Duplicates ==
    /\ pc = "dups"
    /\ LET buckets == DuplicateBuckets(tree, raw_files)
       IN  /\ dup_map' = DupMapOf(buckets)
           /\ newest_in_group' = [g \in 1..Len(buckets) |-> Newest(buckets[g]).path]
           /\ total_dup_reclaim' =
                 SumSeq([g \in 1..Len(buckets) |-> BucketReclaim(buckets[g])])
           /\ duplicates_found' = Len(buckets)
    /\ hashed' = HashedPaths(raw_files)
    /\ tree' = AfterHashing(tree, hashed')
    /\ progress' = Append(progress, 50)
    /\ pc' = "score"
    /\ UNCHANGED <<clean_vars, min_size_mb, root_ok,
                   raw_files, stats, scored,
                   results, total_reclaim, outcome>>

----------------------------------------------------------------------------
(* Phases 4-6 (lines 244-407) *)

Min(a, b) == IF a < b THEN a ELSE b

(* ExtensionPoints with "if" for "elif": the checks add up *)
ExtensionPointsStacked(ext) ==
    (IF ext \in JUNK_EXTENSIONS THEN 15 ELSE 0)
    + (IF ExtensionCategory(ext) # ""
       THEN (IF CategorySafety(ExtensionCategory(ext)) = SAFE THEN 10
             ELSE IF ext \in ArchiveExtensions THEN 5 ELSE 0)
       ELSE 0)

(* Extension check, lines 261-272 *)
ExtensionPoints(ext) ==
    IF ext \in JUNK_EXTENSIONS THEN 15
    ELSE IF ExtensionCategory(ext) # ""
         THEN (IF CategorySafety(ExtensionCategory(ext)) = SAFE THEN 10
               ELSE IF ext \in ArchiveExtensions THEN 5 ELSE 0)
         ELSE 0

(* any(name in names for name in parts_lower) *)
AnyPartIn(parts_lower, names) ==
    \E i \in 1..Len(parts_lower) : parts_lower[i] \in names

(* Rule-based component, lines 258-287 *)
RulePoints(ext, parts_lower) ==
    ExtensionPoints(ext)
    + (IF AnyPartIn(parts_lower, JUNK_FOLDER_NAMES) THEN 10 ELSE 0)
    + (IF AnyPartIn(parts_lower, TEMP_FOLDER_NAMES) THEN 15 ELSE 0)
    + (IF IsInKnownJunkDir(parts_lower, KnownJunkLower).found THEN 10 ELSE 0)

(* z = (x - mean) / sd for the distribution d, with sd = 1.0 when           *)
(* d.sd_is_one.  NDev is n (x - mean).                                      *)
NDev(x, d) == d.n * x - d.sum

(* z > 1 *)
ZAboveOne(x, d) ==
    IF d.sd_is_one THEN NDev(x, d) > d.n
    ELSE NDev(x, d) > 0 /\ NDev(x, d) * NDev(x, d) * (d.n - 1) > d.ss

(* IntFiveZ rounding to the nearest integer: round(5 * z) *)
RoundFiveZ(x, d) ==
    LET N == NDev(x, d)
        A == IF N < 0 THEN 0 - N ELSE N
        mag == IF d.sd_is_one THEN (10 * A + d.n) \div (2 * d.n)
               ELSE Cardinality({ k \in 1..(5 * d.n) :
                                    (2 * k - 1) * (2 * k - 1) * d.ss
                                        <= 100 * A * A * (d.n - 1) })
    IN  IF N < 0 THEN 0 - mag ELSE mag

(* int(5 * z): truncation towards zero *)
IntFiveZ(x, d) ==
    LET N == NDev(x, d)
        A == IF N < 0 THEN 0 - N ELSE N
        mag == IF d.sd_is_one THEN (5 * A) \div d.n
               ELSE Cardinality({ k \in 1..(5 * d.n) :
                                    k * k * d.ss <= 25 * A * A * (d.n - 1) })
    IN  IF N < 0 THEN 0 - mag ELSE mag

(* OutlierPoints without the test "if z > 1" *)
OutlierPointsUnguarded(x, d) == Min(IntFiveZ(x, d), 15)

(* if z > 1: pts = min(int(5 * z), 15), lines 295-303 *)
OutlierPoints(x, d) == IF ZAboveOne(x, d) THEN Min(IntFiveZ(x, d), 15) ELSE 0

(* AgeOf taking the access time for the modification time *)
AgeOfAccess(rec) == Now - rec.atime

(* age = now - f["mtime"], line 292 *)
AgeOf(rec) == Now - rec.mtime

(* Statistical component, lines 289-303 *)
StatPoints(rec, st) ==
    OutlierPoints(rec.size, st.size) + OutlierPoints(AgeOf(rec), st.age)

(* dup_map.get(path, 0) *)
DupGid(dm, path) == IF path \in DOMAIN dm THEN dm[path] ELSE 0

(* is_newest = (dup_gid > 0 and newest_in_group.get(dup_gid) == path) *)
IsNewest(gid, nig, path) ==
    IF gid > 0 /\ gid \in DOMAIN nig THEN nig[gid] = path ELSE FALSE

(* DuplicatePoints giving the bonus to the newest copy as well *)
DuplicatePointsAll(gid, is_newest) == IF gid > 0 THEN 20 ELSE 0

(* Duplicate component, lines 313-322 *)
DuplicatePoints(gid, is_newest) == IF gid > 0 /\ ~is_newest THEN 20 ELSE 0

(* score = min(score, 100), line 325 *)
Clamp(score) == Min(score, 100)

(* Safety override, lines 327-332 *)
IsProtected(ext, parts_lower) ==
    \/ ext \in get_protected_extensions
    \/ IsUnderProtectedDir(parts_lower, get_protected_dirs)

(* SafetyOf with the tier safe from a score of 50 *)
SafetyOfFifty(protected, score) ==
    IF protected THEN PROTECTED
    ELSE IF score >= 50 THEN SAFE
    ELSE IF score >= 30 THEN REVIEW
    ELSE UNKNOWN

(* SafetyOf with "score > 60" for "score >= 60" *)
SafetyOfStrict(protected, score) ==
    IF protected THEN PROTECTED
    ELSE IF score > 60 THEN SAFE
    ELSE IF score >= 30 THEN REVIEW
    ELSE UNKNOWN

(* lines 334-342 *)
SafetyOf(protected, score) ==
    IF protected THEN PROTECTED
    ELSE IF score >= 60 THEN SAFE
    ELSE IF score >= 30 THEN REVIEW
    ELSE UNKNOWN

(* CategoryOf with the extension looked up before the known junk          *)
(* directories                                                              *)
CategoryOfExtensionFirst(ext, parts_lower, gid, is_newest) ==
    LET junk == IsInKnownJunkDir(parts_lower, KnownJunkLower)
    IN  IF gid > 0 /\ ~is_newest THEN "duplicate"
        ELSE IF ExtensionCategory(ext) # "" THEN ExtensionCategory(ext)
        ELSE IF junk.found THEN junk.category
        ELSE IF AnyPartIn(parts_lower, JUNK_FOLDER_NAMES) THEN "old_download"
        ELSE IF AnyPartIn(parts_lower, TEMP_FOLDER_NAMES) THEN "cache_temp"
        ELSE "large_unused"

(* Category, lines 344-358 *)
CategoryOf(ext, parts_lower, gid, is_newest) ==
    LET junk == IsInKnownJunkDir(parts_lower, KnownJunkLower)
    IN  IF gid > 0 /\ ~is_newest THEN "duplicate"
        ELSE IF junk.found THEN junk.category
        ELSE IF ExtensionCategory(ext) # "" THEN ExtensionCategory(ext)
        ELSE IF AnyPartIn(parts_lower, JUNK_FOLDER_NAMES) THEN "old_download"
        ELSE IF AnyPartIn(parts_lower, TEMP_FOLDER_NAMES) THEN "cache_temp"
        ELSE "large_unused"

(* Confidence, lines 360-366 *)
ConfidenceOf(score) ==
    IF score >= 70 THEN "High" ELSE IF score >= 40 THEN "Medium" ELSE "Low"

(* The reasons, as the list that is joined with ", " for FileInfo.reasons.  *)
(* The figure of z in "Unusually large (z=1.2)" is left out.                *)
ExtensionReasons(ext) ==
    IF ext \in JUNK_EXTENSIONS THEN <<"Junk extension (" \o ext \o ")">>
    ELSE IF ExtensionCategory(ext) # ""
         THEN (IF CategorySafety(ExtensionCategory(ext)) = SAFE
               THEN <<CategoryLabel(ExtensionCategory(ext)) \o " extension">>
               ELSE IF ext \in ArchiveExtensions THEN <<"Archive file">> ELSE <<>>)
         ELSE <<>>

RuleReasons(ext, parts_lower) ==
    ExtensionReasons(ext)
    \o (IF AnyPartIn(parts_lower, JUNK_FOLDER_NAMES) THEN <<"In Downloads folder">> ELSE <<>>)
    \o (IF AnyPartIn(parts_lower, TEMP_FOLDER_NAMES) THEN <<"In Temp/Cache folder">> ELSE <<>>)
    \o (IF IsInKnownJunkDir(parts_lower, KnownJunkLower).found
        THEN <<"In known junk directory">> ELSE <<>>)

OutlierReasons(rec, st) ==
    (IF ZAboveOne(rec.size, st.size) THEN <<"Unusually large (z=..)">> ELSE <<>>)
    \o (IF ZAboveOne(AgeOf(rec), st.age) THEN <<"Unusually old (z=..)">> ELSE <<>>)

(* "old" in reason.lower(), for the reasons the model can build *)
ContainsOld(reason) ==
    reason \in {"In Downloads folder", "In Temp/Cache folder",
                "Unusually old (z=..)", "Junk extension (.old)"}

(* "old" in " ".join(reasons).lower() *)
HasOld(reasons) == \E i \in 1..Len(reasons) : ContainsOld(reasons[i])

(* Age checks, lines 305-311: the reasons with those of the age added *)
WithAgeReasons(rec, reasons) ==
    LET r1 == IF Now - rec.atime > SECONDS_IN_YEAR /\ ~HasOld(reasons)
              THEN Append(reasons, "Not accessed in >1 year") ELSE reasons
    IN  IF AgeOf(rec) > SECONDS_IN_YEAR /\ ~HasOld(r1)
        THEN Append(r1, "Not modified in >1 year") ELSE r1

(* lines 318-322 *)
DuplicateReasons(gid, is_newest) ==
    IF gid > 0 /\ ~is_newest THEN <<"Duplicate copy (not newest)">>
    ELSE IF gid > 0 /\ is_newest THEN <<"Duplicate (newest copy - kept)">>
    ELSE <<>>

ReasonsOf(rec, parts_lower, st, gid, is_newest) ==
    LET rs == WithAgeReasons(rec, RuleReasons(rec.ext, parts_lower) \o OutlierReasons(rec, st))
              \o DuplicateReasons(gid, is_newest)
    IN  IF rs = <<>> THEN <<"Large file">> ELSE rs

(* The FileInfo built for one record, lines 249-397 *)
ScoreFile(rec, st, dm, nig) ==
    LET parts_lower == PartsLower(rec.path)
        dup_gid == DupGid(dm, rec.path)
        is_newest == IsNewest(dup_gid, nig, rec.path)
        raw_score == RulePoints(rec.ext, parts_lower) + StatPoints(rec, st)
                     + DuplicatePoints(dup_gid, is_newest)
        protected == IsProtected(rec.ext, parts_lower)
        score == IF protected THEN 0 ELSE Clamp(raw_score)
    IN  [path |-> rec.path, size |-> rec.size, extension |-> rec.ext,
         category |-> CategoryOf(rec.ext, parts_lower, dup_gid, is_newest),
         safety |-> SafetyOf(protected, score),
         score |-> score,
         confidence |-> ConfidenceOf(score),
         reasons |-> ReasonsOf(rec, parts_lower, st, dup_gid, is_newest),
         duplicate_group |-> dup_gid,
         is_newest_in_group |-> is_newest]

(* Kept with the filter of line 400 left out *)
KeptAlways(fi) == TRUE

(* Kept dropping the files of score 0 as well *)
KeptIfScored(fi) == fi.safety # PROTECTED /\ fi.score > 0

(* if safety != SafetyTier.PROTECTED: results.append(fi), lines 399-402 *)
Kept(fi) == fi.safety # PROTECTED

(* ReclaimAdded with the addition moved out of the "if" of line 400 *)
ReclaimAddedAlways(fi) == fi.size

(* total_reclaim += size, for the files appended to results (line 402) *)
ReclaimAdded(fi) == IF Kept(fi) THEN fi.size ELSE 0

(* Progress over file scoring, lines 404-407: the values reported while     *)
(* the n records are scored                                                 *)
ReportsAt(idx, n) == (idx + 1) % (IF n \div 10 > 1 THEN n \div 10 ELSE 1) = 0

(* ScoringPct without the base of 50 *)
ScoringPctNoBase(idx, n) == Min((40 * (idx + 1)) \div n, 90)

ScoringPct(idx, n) == Min(50 + ((40 * (idx + 1)) \div n), 90)

RECURSIVE ScoringProgress(_, _)
ScoringProgress(idx, n) ==
    IF idx >= n THEN <<>>
    ELSE (IF ReportsAt(idx, n) THEN <<ScoringPct(idx, n)>> ELSE <<>>)
         \o ScoringProgress(idx + 1, n)

Score ==
    /\ pc = "score"
    /\ scored' = [i \in 1..Len(raw_files) |->
                     ScoreFile(raw_files[i], stats, dup_map, newest_in_group)]
    /\ results' = SelectSeq(scored', Kept)
    /\ total_reclaim' = SumSeq([i \in 1..Len(scored') |-> ReclaimAdded(scored'[i])])
    /\ progress' = progress \o ScoringProgress(0, Len(raw_files))
    /\ pc' = "finish"
    /\ UNCHANGED <<clean_vars, min_size_mb, root_ok,
                   tree, raw_files, stats, hashed, dup_map,
                   newest_in_group, total_dup_reclaim, duplicates_found, outcome>>

----------------------------------------------------------------------------
(* Sort, Phase 7 and the return (lines 409-441) *)

(* results.sort(key=lambda fi: fi.score, reverse=True): a stable sort, the  *)
(* records of equal score keep their order                                  *)
(* InsertByScore without reverse=True: ascending *)
InsertAscending(sorted, fi) ==
    LET k == Cardinality({ i \in 1..Len(sorted) : sorted[i].score <= fi.score })
    IN  SubSeq(sorted, 1, k) \o <<fi>> \o SubSeq(sorted, k + 1, Len(sorted))

InsertByScore(sorted, fi) ==
    LET k == Cardinality({ i \in 1..Len(sorted) : sorted[i].score >= fi.score })
    IN  SubSeq(sorted, 1, k) \o <<fi>> \o SubSeq(sorted, k + 1, Len(sorted))

RECURSIVE SortByScore(_)
SortByScore(fis) ==
    IF fis = <<>> THEN <<>>
    ELSE InsertByScore(SortByScore(SubSeq(fis, 1, Len(fis) - 1)), fis[Len(fis)])

(* CategorySummary with "size" assigned where it is to be added up *)
CategorySummaryLastSize(fis) ==
    [c \in { fis[i].category : i \in 1..Len(fis) } |->
        LET of == SelectSeq(fis, LAMBDA fi : fi.category = c)
        IN  [count |-> Len(of), size |-> of[Len(of)].size]]

(* cat_summary, lines 413-418 *)
CategorySummary(fis) ==
    [c \in { fis[i].category : i \in 1..Len(fis) } |->
        LET of == SelectSeq(fis, LAMBDA fi : fi.category = c)
        IN  [count |-> Len(of), size |-> SumSeq([i \in 1..Len(of) |-> of[i].size])]]

Finish ==
    /\ pc = "finish"
    /\ LET sorted == SortByScore(results)
       IN  /\ results' = sorted
           /\ outcome' =
                 [state |-> "returned",
                  result |-> [files |-> sorted,
                              duplicates_found |-> duplicates_found,
                              duplicate_space_reclaimable |-> total_dup_reclaim,
                              total_reclaimable |-> total_reclaim,
                              category_summary |-> CategorySummary(sorted),
                              files_scanned |-> Len(raw_files),
                              files_returned |-> Len(sorted)]]
    /\ progress' = Append(progress, 100)
    /\ pc' = "done"
    /\ UNCHANGED <<clean_vars, min_size_mb, root_ok,
                   tree, raw_files, stats, hashed, dup_map,
                   newest_in_group, total_dup_reclaim, duplicates_found,
                   scored, total_reclaim>>

Scan == Begin \/ Collect \/ Statistics \/ Duplicates \/ Score \/ Finish

Next == AddFile \/ Scan

Spec == Init /\ [][Next]_vars

----------------------------------------------------------------------------
(* Long scans: a tree of up to MaxScanned files of one directory, all of    *)
(* one size, so that the scoring loop reports progress every                *)
(* len(raw_files) // 10 files.                                              *)

LongTree(n, size) ==
    [i \in 1..n |-> File(DataDir, i, ".bin", TRUE, size, 1 + (i % 2), 1)]

LongInit ==
    /\ root_ok = TRUE
    /\ \E n \in 0..MaxScanned : \E size \in {0} \cup Sizes : tree = LongTree(n, size)
    /\ min_size_mb = 1
    /\ CleanerIdle
    /\ pc = "setup"
    /\ progress = <<>>
    /\ raw_files = <<>>
    /\ stats = NoStats
    /\ hashed = {}
    /\ dup_map = <<>>
    /\ newest_in_group = <<>>
    /\ total_dup_reclaim = 0
    /\ duplicates_found = 0
    /\ scored = <<>>
    /\ results = <<>>
    /\ total_reclaim = 0
    /\ outcome = [state |-> "running"]

LongNext == Begin \/ Collect \/ Statistics \/ Duplicates \/ Score \/ Finish

LongSpec == LongInit /\ [][LongNext]_vars

----------------------------------------------------------------------------
(* Scans of a tree with faults: a directory that cannot be listed, files    *)
(* that vanish before stat, files that cannot be read, a directory at the   *)
(* depth max_depth and one below it, /etc and /ETC.                         *)

EtcUpperDir == <<"ETC">>
EdgeDir == Home \o <<"a", "b", "c", "d">>

FaultDirs == <<EtcUpperDir, EtcDir, EdgeDir, DeepDir, LockedDir, DataDir>>

FaultFilesAt(k, i) ==
    IF FaultDirs[k] = DataDir
    THEN { File(DataDir, i, ".bin", TRUE, sz, 1, c) : sz \in Sizes, c \in {0} \cup Contents }
         \cup { File(DataDir, i, ".bin", FALSE, 1, 1, 1),     \* vanished
                File(DataDir, i, ".bin", TRUE, 0, 1, 1) }     \* too small
    ELSE { File(FaultDirs[k], i, ".bin", TRUE, 2, 1, 1) }

FaultDirIndex(f) == CHOOSE k \in 1..Len(FaultDirs) : FaultDirs[k] = f.path.dir

FaultWalkOrdered(t, f) ==
    IF t = <<>> THEN TRUE ELSE FaultDirIndex(t[Len(t)]) <= FaultDirIndex(f)

AddFaultyFile ==
    /\ pc = "setup"
    /\ root_ok
    /\ Len(tree) < MaxFiles
    /\ \E k \in 1..Len(FaultDirs) : \E f \in FaultFilesAt(k, Len(tree) + 1) :
          /\ FaultWalkOrdered(tree, f)
          /\ tree' = Append(tree, f)
    /\ UNCHANGED <<clean_vars, min_size_mb, root_ok, pc, progress, raw_files,
                   stats, hashed, dup_map, newest_in_group, total_dup_reclaim,
                   duplicates_found, scored, results, total_reclaim, outcome>>

FaultNext == AddFaultyFile \/ Scan

FaultSpec == Init /\ [][FaultNext]_vars

----------------------------------------------------------------------------
(* Scans of up to MaxRuleFiles files of 1 MiB that differ in what the rules *)
(* look at: the directory (plain, download-like, temp-like, known junk      *)
(* directories with and without such segments), the extension (none of the  *)
(* catalog, archive with and without points, junk, build artifact) and the  *)
(* content.  The second file is the most recently modified; the first has  *)
(* the first of the contents, which only matter by being equal or not.      *)

RuleDirs ==
    << DataDir, Home \o <<"Downloads">>, Home \o <<"Tmp">>, <<"var", "log">>, JunkDir >>

RuleExtensions == {".bin", ".zip", ".xz", ".TMP", ".pyc"}

RuleFilesAt(k, i) ==
    { File(RuleDirs[k], i, ext, TRUE, 1, IF i = 2 THEN 2 ELSE 1, c) :
        ext \in RuleExtensions, c \in IF i = 1 THEN {1} ELSE Contents }

RuleDirIndex(f) == CHOOSE k \in 1..Len(RuleDirs) : RuleDirs[k] = f.path.dir

RuleWalkOrdered(t, f) ==
    IF t = <<>> THEN TRUE ELSE RuleDirIndex(t[Len(t)]) <= RuleDirIndex(f)

AddRuleFile ==
    /\ pc = "setup"
    /\ root_ok
    /\ Len(tree) < MaxRuleFiles
    /\ \E k \in 1..Len(RuleDirs) : \E f \in RuleFilesAt(k, Len(tree) + 1) :
          /\ RuleWalkOrdered(tree, f)
          /\ tree' = Append(tree, f)
    /\ UNCHANGED <<clean_vars, min_size_mb, root_ok, pc, progress, raw_files,
                   stats, hashed, dup_map, newest_in_group, total_dup_reclaim,
                   duplicates_found, scored, results, total_reclaim, outcome>>

RuleNext == AddRuleFile \/ Scan

RuleSpec == Init /\ [][RuleNext]_vars

----------------------------------------------------------------------------
(* Scans of up to MaxFiles files of 1 MiB in one plain directory that       *)
(* differ in their modification time, their content and their access time:  *)
(* accessed at the time of the scan, or years before.                       *)

Atimes == {1, Now}

Accessed(f, atime) == [f EXCEPT !.atime = atime]

AtimeFilesAt(i) ==
    { Accessed(File(DataDir, i, ".bin", TRUE, 1, mtime, c), atime) :
        mtime \in Mtimes, c \in Contents, atime \in Atimes }

AddAccessedFile ==
    /\ pc = "setup"
    /\ root_ok
    /\ Len(tree) < MaxFiles
    /\ \E f \in AtimeFilesAt(Len(tree) + 1) : tree' = Append(tree, f)
    /\ UNCHANGED <<clean_vars, min_size_mb, root_ok, pc, progress, raw_files,
                   stats, hashed, dup_map, newest_in_group, total_dup_reclaim,
                   duplicates_found, scored, results, total_reclaim, outcome>>

AtimeNext == AddAccessedFile \/ Scan

AtimeSpec == Init /\ [][AtimeNext]_vars

----------------------------------------------------------------------------
(* Scans of a root whose only file of min_size_mb MiB or more is old.tmp,   *)
(* 2 MiB, last modified ten time units before the scan.                     *)

OldTmp(dir, ext) ==
    [path |-> [dir |-> dir, stem |-> "old", ext |-> ext],
     stat_ok |-> TRUE, size |-> 2, mtime |-> Now - 10, atime |-> Now - 10,
     readable |-> TRUE, content |-> <<1, 1, 1>>]

ScenarioDirs ==
    { Home, DataDir, JunkDir, <<"tmp">>, Home \o <<".cache">>,
      Home \o <<".local", "share", "Trash">> }

(* What else the root holds: nothing that is collected *)
ScenarioOthers ==
    { <<>>,
      <<File(EtcDir, 2, ".log", TRUE, 2, 1, 1)>>,
      <<File(DataDir, 2, ".bin", TRUE, 0, 1, 1)>>,
      <<File(DataDir, 2, ".bin", FALSE, 1, 1, 1)>> }

ScenarioInit ==
    /\ root_ok = TRUE
    /\ \E dir \in ScenarioDirs : \E ext \in {".tmp", ".TMP"} :
          \E others \in ScenarioOthers : tree = <<OldTmp(dir, ext)>> \o others
    /\ min_size_mb = 1
    /\ CleanerIdle
    /\ pc = "setup"
    /\ progress = <<>>
    /\ raw_files = <<>>
    /\ stats = NoStats
    /\ hashed = {}
    /\ dup_map = <<>>
    /\ newest_in_group = <<>>
    /\ total_dup_reclaim = 0
    /\ duplicates_found = 0
    /\ scored = <<>>
    /\ results = <<>>
    /\ total_reclaim = 0
    /\ outcome = [state |-> "running"]

ScenarioNext == Begin \/ Collect \/ Statistics \/ Duplicates \/ Score \/ Finish

ScenarioSpec == ScenarioInit /\ [][ScenarioNext]_vars

----------------------------------------------------------------------------
(* Scans of up to MaxScanned files of one directory that are alike but for  *)
(* outliers: the first `old` files were modified earlier, the first `big`   *)
(* files are larger; every third file has a content of its own kind.        *)

OutlierTree(n, old, big) ==
    [i \in 1..n |->
        File(DataDir, i, ".bin", TRUE,
             IF i <= big THEN 2 ELSE 1,
             IF i <= old THEN 1 ELSE 2,
             IF i % 3 = 0 THEN 2 ELSE 1)]

OutlierInit ==
    /\ root_ok = TRUE
    /\ \E n \in 0..MaxScanned : \E old \in 0..2 : \E big \in 0..3 :
          tree = OutlierTree(n, old, big)
    /\ min_size_mb = 1
    /\ CleanerIdle
    /\ pc = "setup"
    /\ progress = <<>>
    /\ raw_files = <<>>
    /\ stats = NoStats
    /\ hashed = {}
    /\ dup_map = <<>>
    /\ newest_in_group = <<>>
    /\ total_dup_reclaim = 0
    /\ duplicates_found = 0
    /\ scored = <<>>
    /\ results = <<>>
    /\ total_reclaim = 0
    /\ outcome = [state |-> "running"]

OutlierNext == Begin \/ Collect \/ Statistics \/ Duplicates \/ Score \/ Finish

OutlierSpec == OutlierInit /\ [][OutlierNext]_vars

----------------------------------------------------------------------------
(* Scans with min_size_mb = 0 of two small files: every file is collected,  *)
(* and a size is the number of blocks of _HASH_BLOCK bytes: 0, 1, 2         *)
(* (8192 bytes) or 3 (12288 bytes).                                         *)

SmallContents ==
    UNION { [1..n -> Contents] : n \in 0..3 }

SmallFile(i, c) ==
    [path |-> [dir |-> DataDir, stem |-> Stem(i), ext |-> ".bin"],
     stat_ok |-> TRUE, size |-> Len(c), mtime |-> i, atime |-> i,
     readable |-> TRUE, content |-> c]

HashInit ==
    /\ root_ok = TRUE
    /\ \E c \in SmallContents : \E d \in SmallContents :
          tree = <<SmallFile(1, c), SmallFile(2, d)>>
    /\ min_size_mb = 0
    /\ CleanerIdle
    /\ pc = "setup"
    /\ progress = <<>>
    /\ raw_files = <<>>
    /\ stats = NoStats
    /\ hashed = {}
    /\ dup_map = <<>>
    /\ newest_in_group = <<>>
    /\ total_dup_reclaim = 0
    /\ duplicates_found = 0
    /\ scored = <<>>
    /\ results = <<>>
    /\ total_reclaim = 0
    /\ outcome = [state |-> "running"]

HashNext == Begin \/ Collect \/ Statistics \/ Duplicates \/ Score \/ Finish

HashSpec == HashInit /\ [][HashNext]_vars

----------------------------------------------------------------------------
(* core/cleaner.py: delete_contents(path).  The file system is a set of     *)
(* entries [path, kind, locked]; unlink of a locked file raises.  path is   *)
(* /tmp/junk.                                                               *)

Target == <<"tmp", "junk">>

Entry(path, kind, locked) == [path |-> path, kind |-> kind, locked |-> locked]

(* What the file system can hold: /tmp, a file beside the target, the       *)
(* target as a directory or as a file, and below it files and directories   *)
(* down to /tmp/junk/sub/deep                                               *)
PossibleEntries ==
    { Entry(<<"tmp">>, "dir", FALSE),
      Entry(<<"tmp", "keep">>, "file", FALSE),
      Entry(Target, "dir", FALSE),
      Entry(Target, "file", FALSE),
      Entry(Target \o <<"sub">>, "dir", FALSE),
      Entry(Target \o <<"sub", "deep">>, "dir", FALSE) }
    \cup { Entry(p, "file", l) :
             p \in { Target \o <<"a">>, Target \o <<"b">>, Target \o <<"sub", "c">>,
                     Target \o <<"sub", "deep", "d">> },
             l \in BOOLEAN }

Parent(path) == SubSeq(path, 1, Len(path) - 1)

IsDir(S, path) == \E e \in S : e.path = path /\ e.kind = "dir"

WellFormed(S) ==
    /\ IsDir(S, <<"tmp">>)
    /\ \A e, g \in S : e.path = g.path => e = g
    /\ \A e \in S : Len(e.path) > 1 => IsDir(S, Parent(e.path))

(* path.exists() *)
Exists(S, path) == \E e \in S : e.path = path

(* The entries of the directory dir *)
Children(S, dir) == { e \in S : Len(e.path) = Len(dir) + 1 /\ IsPrefix(dir, e.path) }

(* A set as a sequence, in the order os.scandir happens to give *)
RECURSIVE Listed(_)
Listed(S) ==
    IF S = {} THEN <<>>
    ELSE LET e == CHOOSE x \in S : TRUE IN <<e>> \o Listed(S \ {e})

(* DirsListed with the directory itself among its dirs *)
DirsListedWithRoot(S, root) ==
    Listed({ e \in Children(S, root) : e.kind = "dir" }
           \cup { e \in S : e.path = root })

(* dirs and files of the triple os.walk yields for root *)
DirsListed(S, root) == Listed({ e \in Children(S, root) : e.kind = "dir" })

FilesListed(S, root) == Listed({ e \in Children(S, root) : e.kind = "file" })

(* The calls of the loop body for one triple: unlink for every name of      *)
(* files, then rmdir for every name of dirs (lines 39-56)                   *)
CallsFor(S, root) ==
    LET fl == FilesListed(S, root)
        dl == DirsListed(S, root)
    IN  [i \in 1..Len(fl) |-> [op |-> "unlink", path |-> fl[i].path]]
        \o [i \in 1..Len(dl) |-> [op |-> "rmdir", path |-> dl[i].path]]

(* os.walk(top, topdown=False, onerror=lambda e: None): every directory is  *)
(* listed before anything in it is deleted, the directories below it are    *)
(* walked first, then its triple is yielded.  A top that is no directory    *)
(* yields nothing.                                                          *)
RECURSIVE WalkBottomUp(_, _)
WalkBottomUp(S, top) ==
    IF ~IsDir(S, top) THEN <<>>
    ELSE LET subs == Listed({ e \in Children(S, top) : e.kind = "dir" })
         IN  Flatten([i \in 1..Len(subs) |-> WalkBottomUp(S, subs[i].path)])
             \o CallsFor(S, top)

(* ml_scan is not running *)
ScanIdle ==
    /\ root_ok = FALSE
    /\ tree = <<>>
    /\ min_size_mb = 1
    /\ pc = "idle"
    /\ progress = <<>>
    /\ raw_files = <<>>
    /\ stats = NoStats
    /\ hashed = {}
    /\ dup_map = <<>>
    /\ newest_in_group = <<>>
    /\ total_dup_reclaim = 0
    /\ duplicates_found = 0
    /\ scored = <<>>
    /\ results = <<>>
    /\ total_reclaim = 0
    /\ outcome = [state |-> "running"]

CleanInit ==
    /\ ScanIdle
    /\ fs \in { S \in SUBSET PossibleEntries : WellFormed(S) }
    /\ del_pc = "start"
    /\ del_queue = <<>>
    /\ deleted_files = 0
    /\ deleted_dirs = 0
    /\ errors = 0
    /\ delete_result = None

(* lines 28-38: the counters, the test of path.exists(), the walk *)
DeleteStart ==
    /\ del_pc = "start"
    /\ IF ~Exists(fs, Target)
       THEN /\ delete_result' = <<0, 0, 0>>
            /\ del_pc' = "done"
            /\ del_queue' = del_queue
       ELSE /\ del_queue' = WalkBottomUp(fs, Target)
            /\ del_pc' = "walk"
            /\ delete_result' = delete_result
    /\ UNCHANGED <<scan_vars, fs, deleted_files, deleted_dirs, errors>>

(* lines 40-47: fp.unlink(missing_ok=True) *)
Unlink ==
    /\ del_pc = "walk"
    /\ del_queue # <<>>
    /\ Head(del_queue).op = "unlink"
    /\ LET path == Head(del_queue).path
           here == { e \in fs : e.path = path }
       IN  IF \E e \in here : e.locked
           THEN /\ errors' = errors + 1
                /\ UNCHANGED <<fs, deleted_files>>
           ELSE /\ fs' = fs \ here
                /\ deleted_files' = deleted_files + 1
                /\ errors' = errors
    /\ del_queue' = Tail(del_queue)
    /\ UNCHANGED <<scan_vars, del_pc, deleted_dirs, delete_result>>

(* lines 49-56: dp.rmdir(), which raises for a directory that is not empty; *)
(* the error is logged and not counted                                      *)
Rmdir ==
    /\ del_pc = "walk"
    /\ del_queue # <<>>
    /\ Head(del_queue).op = "rmdir"
    /\ LET path == Head(del_queue).path
       IN  IF Children(fs, path) = {}
           THEN /\ fs' = fs \ { e \in fs : e.path = path }
                /\ deleted_dirs' = deleted_dirs + 1
           ELSE UNCHANGED <<fs, deleted_dirs>>
    /\ del_queue' = Tail(del_queue)
    /\ UNCHANGED <<scan_vars, del_pc, deleted_files, errors, delete_result>>

(* lines 58-59 *)
DeleteReturn ==
    /\ del_pc = "walk"
    /\ del_queue = <<>>
    /\ delete_result' = <<deleted_files, deleted_dirs, errors>>
    /\ del_pc' = "done"
    /\ UNCHANGED <<scan_vars, fs, del_queue, deleted_files, deleted_dirs, errors>>

CleanNext == DeleteStart \/ Unlink \/ Rmdir \/ DeleteReturn

CleanSpec == CleanInit /\ [][CleanNext]_vars

----------------------------------------------------------------------------
(* What the claims speak of *)

Returned == outcome.state = "returned"

(* ScanResult.files of the result handed back *)
ResultFiles == IF Returned THEN outcome.result.files ELSE <<>>

Scored == pc \in {"finish", "done"}

LiesUnderProtectedDir(path) == \E d \in get_protected_dirs : IsPrefix(d, path.dir)

HasProtectedExtension(path) == Lower(path.ext) \in get_protected_extensions

InFiles(fis, path) == \E j \in 1..Len(fis) : fis[j].path = path

(* The content of the file a record was collected from *)
ContentOf(rec) == FileAtPath(tree, rec.path).content

Readable(rec) == FileAtPath(tree, rec.path).readable

(* The records that are copies of raw_files[i]: same size, same readable    *)
(* content                                                                  *)
CopiesOf(i) ==
    { j \in 1..Len(raw_files) :
        /\ raw_files[j].size = raw_files[i].size
        /\ ContentOf(raw_files[j]) = ContentOf(raw_files[i])
        /\ Readable(raw_files[i]) /\ Readable(raw_files[j]) }

TrueGroups == { CopiesOf(i) : i \in { k \in 1..Len(raw_files) : Cardinality(CopiesOf(k)) >= 2 } }

GroupReclaim(members) ==
    raw_files[CHOOSE i \in members : TRUE].size * (Cardinality(members) - 1)

RECURSIVE ReclaimOfGroups(_)
ReclaimOfGroups(groups) ==
    IF groups = {} THEN 0
    ELSE LET G == CHOOSE X \in groups : TRUE
         IN  GroupReclaim(G) + ReclaimOfGroups(groups \ {G})

(* The records ml_scan put in duplicate group g *)
GroupMembers(g) == { i \in 1..Len(scored) : scored[i].duplicate_group = g }

NewestMembers(g) == { i \in GroupMembers(g) : scored[i].is_newest_in_group }

HasLargestMtime(i, members) == \A j \in members : raw_files[j].mtime <= raw_files[i].mtime

SizeIsUnique(i) ==
    \A j \in 1..Len(raw_files) : j # i => raw_files[j].size # raw_files[i].size

TierMatchesScore(fi) ==
    /\ (fi.score >= 60) <=> (fi.safety = SAFE)
    /\ (fi.score >= 30 /\ fi.score < 60) <=> (fi.safety = REVIEW)
    /\ (fi.score < 30) <=> (fi.safety = UNKNOWN)

Occurrences(sq, v) == Cardinality({ i \in 1..Len(sq) : sq[i] = v })

InRaw(path) == \E k \in 1..Len(raw_files) : raw_files[k].path = path

WalkDone == pc \notin {"setup", "collect"}

(* The file was hit by a fault of the collection: its stat fails, or its    *)
(* directory, or one above it, cannot be listed                             *)
Faulted(f) == ~f.stat_ok \/ (\E k \in 1..Len(f.path.dir) : SubSeq(f.path.dir, 1, k) = LockedDir)

(* The directory is a protected directory or lies below one, as named, and  *)
(* with the path compared in lower case                                     *)
DirProtectedAsNamed(dir) ==
    \E k \in 1..Len(dir) : SubSeq(dir, 1, k) \in get_protected_dirs

DirProtectedIgnoringCase(dir) ==
    \E k \in 1..Len(dir) : LowerAll(SubSeq(dir, 1, k)) \in get_protected_dirs

(* The files the collector is to emit, as C18 reads, and as amended *)
EligibleAsClaimed(f) ==
    /\ Len(f.path.dir) <= max_depth
    /\ ~DirProtectedAsNamed(f.path.dir)
    /\ f.stat_ok
    /\ f.size >= min_size_mb

EligibleAmended(f) ==
    /\ Len(f.path.dir) <= max_depth
    /\ ~DirProtectedIgnoringCase(f.path.dir)
    /\ ~Faulted(f)
    /\ f.size >= min_size_mb

PathsOf(recs) == { recs[k].path : k \in 1..Len(recs) }

(* Two contents of one length agree on the first block and, when they are   *)
(* longer than two blocks, on the last one                                  *)
AgreeOnHeadAndTail(c, d) ==
    /\ Len(c) >= 1 => c[1] = d[1]
    /\ Len(c) > 2 => c[Len(c)] = d[Len(d)]

(* ... and, when they are two blocks long, on the second block as well *)
AgreeOnBlocksHashed(c, d) ==
    /\ AgreeOnHeadAndTail(c, d)
    /\ Len(c) = 2 => c[2] = d[2]

InSameGroup(p, q) ==
    /\ p \in DOMAIN dup_map /\ q \in DOMAIN dup_map
    /\ dup_map[p] = dup_map[q] /\ dup_map[p] > 0

HashingDone == pc \in {"score", "finish", "done"}

(* The sizes and the modification ages of the collected files *)
SizeValues == [i \in 1..Len(raw_files) |-> raw_files[i].size]

AgeValues == [i \in 1..Len(raw_files) |-> Now - raw_files[i].mtime]

(* For the values xs, n of them, with sum S: Dev is n (x - mean), Spread is *)
(* n^2 (n - 1) stdev^2.  The standard deviation is 1.0 when n <= 1 or when  *)
(* it would be 0.                                                           *)
Dev(xs, i) == Len(xs) * xs[i] - SumSeq(xs)

Spread(xs) == SumSeq([i \in 1..Len(xs) |-> Dev(xs, i) * Dev(xs, i)])

Floored(xs) == Len(xs) <= 1 \/ Spread(xs) = 0

(* z > 1, for z = (xs[i] - mean) / sd *)
ZExceedsOne(xs, i) ==
    IF Floored(xs) THEN Dev(xs, i) > Len(xs)
    ELSE Dev(xs, i) > 0 /\ Dev(xs, i) * Dev(xs, i) * (Len(xs) - 1) > Spread(xs)

(* t <= 5 z < t + 1, for z > 0 *)
IsFiveZTruncated(xs, i, t) ==
    IF Floored(xs)
    THEN t * Len(xs) <= 5 * Dev(xs, i) /\ 5 * Dev(xs, i) < (t + 1) * Len(xs)
    ELSE /\ t * t * Spread(xs) <= 25 * Dev(xs, i) * Dev(xs, i) * (Len(xs) - 1)
         /\ 25 * Dev(xs, i) * Dev(xs, i) * (Len(xs) - 1) < (t + 1) * (t + 1) * Spread(xs)

(* r = round(5 z), for z > 0: r - 1/2 <= 5 z <= r + 1/2, a tie going to the *)
(* even neighbour                                                           *)
IsFiveZRounded(xs, i, r) ==
    LET lo == IF Floored(xs) THEN (2 * r - 1) * Len(xs)
              ELSE (2 * r - 1) * (2 * r - 1) * Spread(xs)
        hi == IF Floored(xs) THEN (2 * r + 1) * Len(xs)
              ELSE (2 * r + 1) * (2 * r + 1) * Spread(xs)
        v == IF Floored(xs) THEN 10 * Dev(xs, i)
             ELSE 100 * Dev(xs, i) * Dev(xs, i) * (Len(xs) - 1)
    IN  /\ lo <= v /\ v <= hi
        /\ (lo = v \/ v = hi) => r % 2 = 0

TruncatedPoints(xs, i) ==
    IF ZExceedsOne(xs, i)
    THEN Min(CHOOSE t \in 0..(5 * Len(xs)) : IsFiveZTruncated(xs, i, t), 15)
    ELSE 0

RoundedPoints(xs, i) ==
    IF ZExceedsOne(xs, i)
    THEN Min(CHOOSE r \in 0..(5 * Len(xs) + 1) : IsFiveZRounded(xs, i, r), 15)
    ELSE 0

(* What the statistics added to the score of the i-th collected file: its   *)
(* score less the points of the rules and of the duplicate test             *)
StatisticalPart(i) ==
    scored[i].score
    - RulePoints(raw_files[i].ext, PartsLower(raw_files[i].path))
    - DuplicatePoints(scored[i].duplicate_group, scored[i].is_newest_in_group)

StrictlyUnder(path, dir) == Len(path) > Len(dir) /\ SubSeq(path, 1, Len(dir)) = dir

FilesUnder(S, dir) == { e \in S : e.kind = "file" /\ StrictlyUnder(e.path, dir) }

----------------------------------------------------------------------------
(* C1: a file that lies under a protected directory, or whose extension is  *)
(* a protected extension, is in no list of results of the scan, neither     *)
(* the one being built nor ScanResult.files.                                *)
C1_ProtectedExclusion ==
    \A i \in 1..Len(tree) :
        (LiesUnderProtectedDir(tree[i].path) \/ HasProtectedExtension(tree[i].path))
        => (~InFiles(results, tree[i].path) /\ ~InFiles(ResultFiles, tree[i].path))

(* C1 witness: a scan returned files, its tree held a file under /etc, and  *)
(* a collected file of a protected extension was the older copy of a        *)
(* duplicate (the highest duplicate signal).                                *)
C1_Witness ==
    /\ pc = "done" /\ Len(ResultFiles) > 0
    /\ \E i \in 1..Len(tree) : LiesUnderProtectedDir(tree[i].path)
    /\ \E k \in 1..Len(raw_files) :
          /\ HasProtectedExtension(raw_files[k].path)
          /\ scored[k].duplicate_group > 0
          /\ ~scored[k].is_newest_in_group

(* C2: for every file kept, the tier follows from the score alone:          *)
(* score >= 60 iff safe, 30 <= score < 60 iff review, score < 30 iff        *)
(* unknown.                                                                 *)
C2_TierConsistency ==
    /\ \A j \in 1..Len(results) : TierMatchesScore(results[j])
    /\ \A j \in 1..Len(ResultFiles) : TierMatchesScore(ResultFiles[j])

(* C2 witness: a result with a safe, a review and an unknown file *)
C2_Witness ==
    /\ pc = "done"
    /\ \E a, b, c \in 1..Len(ResultFiles) :
          /\ ResultFiles[a].safety = SAFE
          /\ ResultFiles[b].safety = REVIEW
          /\ ResultFiles[c].safety = UNKNOWN

(* C3: every FileInfo built has a score in 0..100 *)
C3_ScoreBound ==
    /\ \A i \in 1..Len(scored) : scored[i].score \in 0..100
    /\ \A j \in 1..Len(ResultFiles) : ResultFiles[j].score \in 0..100

(* C3 witness: a returned file that drew points from the rules, from the    *)
(* statistics and from being a duplicate, next to a file below the mean.    *)
C3_Witness ==
    /\ pc = "done"
    /\ \E i \in 1..Len(raw_files) :
          /\ InFiles(ResultFiles, raw_files[i].path)
          /\ RulePoints(raw_files[i].ext, PartsLower(raw_files[i].path)) > 0
          /\ StatPoints(raw_files[i], stats) > 0
          /\ scored[i].duplicate_group > 0 /\ ~scored[i].is_newest_in_group
    /\ \E j \in 1..Len(raw_files) : NDev(raw_files[j].size, stats.size) < 0

C5_ReclaimableSum ==
    Returned =>
        outcome.result.duplicate_space_reclaimable = ReclaimOfGroups(TrueGroups)

(* C5 witness: a returned scan with a group of three copies *)
C5_Witness ==
    /\ pc = "done"
    /\ \E G \in TrueGroups : Cardinality(G) >= 3
    /\ outcome.result.duplicate_space_reclaimable > 0

(* C6: a collected file whose size no other collected file has is never     *)
(* handed to _partial_md5 and has duplicate group 0, in dup_map, in the     *)
(* FileInfo built for it and in the result.                                 *)
C6_SingletonNotHashed ==
    \A i \in 1..Len(raw_files) :
        SizeIsUnique(i) =>
            /\ raw_files[i].path \notin hashed
            /\ DupGid(dup_map, raw_files[i].path) = 0
            /\ Scored => scored[i].duplicate_group = 0
            /\ \A j \in 1..Len(ResultFiles) :
                  ResultFiles[j].path = raw_files[i].path
                  => ResultFiles[j].duplicate_group = 0

(* C6 witness: files were hashed, and a file of a size of its own is in the *)
(* result                                                                   *)
C6_Witness ==
    /\ pc = "done" /\ hashed # {}
    /\ \E i \in 1..Len(raw_files) :
          SizeIsUnique(i) /\ InFiles(ResultFiles, raw_files[i].path)

(* C7: the scores of ScanResult.files never increase from one element to    *)
(* the next.                                                                *)
C7_SortedByScore ==
    \A i, j \in 1..Len(ResultFiles) :
        i < j => ResultFiles[i].score >= ResultFiles[j].score

(* C7 witness: the sort moved a file: the files were scored in another      *)
(* order than the one returned                                              *)
C7_Witness ==
    /\ pc = "done" /\ Len(ResultFiles) >= 3
    /\ SelectSeq(scored, Kept) # ResultFiles

(* C8, as claimed: a scan of a root that does not exist, or is no           *)
(* directory, ends with an error raised before any progress report, and     *)
(* hands back no ScanResult.                                                *)
C8_InvalidRootRaises ==
    (~root_ok /\ pc = "done") =>
        (outcome.state = "raised" /\ progress = <<>>)

(* C9, as claimed: every completed scan has reported 100 exactly once, as   *)
(* its last report.                                                         *)
C9_HundredOnce ==
    pc = "done" =>
        /\ Occurrences(progress, 100) = 1
        /\ progress[Len(progress)] = 100

(* C10: the values handed to progress_cb are integers of 0..100 and never   *)
(* decrease.                                                                *)
C10_ProgressMonotone ==
    \A i \in 1..Len(progress) :
        /\ progress[i] \in 0..100
        /\ i > 1 => progress[i - 1] <= progress[i]

(* C10 witness: a finished scan of 20 files or more, where the scoring loop *)
(* reports for every second file only                                       *)
C10_Witness ==
    /\ pc = "done" /\ Len(raw_files) >= 20
    /\ Len(progress) < Len(raw_files) + 5
    /\ Len(progress) > 10

(* C11: a scan that collected no file has handed back, without an error,    *)
(* the ScanResult with files == [], duplicates_found == 0,                  *)
(* duplicate_space_reclaimable == 0, total_reclaimable == 0 and no          *)
(* category, and the statistics, duplicate and scoring phases have not run: *)
(* they left nothing behind and reported no progress.                       *)
C11_EmptyShortCircuit ==
    (pc \notin {"setup", "collect"} /\ raw_files = <<>>) =>
        /\ pc = "done"
        /\ outcome.state = "returned"
        /\ outcome.result.files = <<>>
        /\ outcome.result.duplicates_found = 0
        /\ outcome.result.duplicate_space_reclaimable = 0
        /\ outcome.result.total_reclaimable = 0
        /\ DOMAIN outcome.result.category_summary = {}
        /\ stats = NoStats /\ hashed = {} /\ dup_map = <<>> /\ scored = <<>>
        /\ progress = <<5, 20>>

(* C11 witness: the root holds files, none of which was collected: one      *)
(* under a protected directory, one too small                               *)
C11_Witness ==
    /\ pc = "done" /\ raw_files = <<>>
    /\ \E i, j \in 1..Len(tree) :
          /\ LiesUnderProtectedDir(tree[i].path)
          /\ tree[j].stat_ok /\ tree[j].size < min_size_mb

C15_TotalReclaimable ==
    Returned =>
        /\ outcome.result.total_reclaimable
              = SumSeq([j \in 1..Len(ResultFiles) |-> ResultFiles[j].size])
        /\ \A i \in 1..Len(raw_files) :
              HasProtectedExtension(raw_files[i].path)
              => ~InFiles(ResultFiles, raw_files[i].path)

(* C15 witness: a result with files, from a scan that collected a file of a *)
(* protected extension                                                      *)
C15_Witness ==
    /\ pc = "done" /\ Len(ResultFiles) > 0
    /\ \E i \in 1..Len(raw_files) :
          HasProtectedExtension(raw_files[i].path) /\ raw_files[i].size > 0

(* C13: a scan of a tree with faults ends by returning a ScanResult, never  *)
(* by an error; a file whose stat fails, or whose directory cannot be       *)
(* listed, is not collected; every other file that passes the depth, the    *)
(* protection and the size test is collected, scored, and returned unless   *)
(* its extension is protected.                                              *)
C13_FaultsAbsorbed ==
    /\ pc = "done" => outcome.state = "returned"
    /\ WalkDone => \A i \in 1..Len(tree) :
          /\ Faulted(tree[i]) => ~InRaw(tree[i].path)
          /\ EligibleAmended(tree[i]) => InRaw(tree[i].path)
    /\ Scored => \A i \in 1..Len(tree) :
          EligibleAmended(tree[i]) => InFiles(scored, tree[i].path)
    /\ pc = "done" => \A i \in 1..Len(tree) :
          (EligibleAmended(tree[i]) /\ ~HasProtectedExtension(tree[i].path))
          => InFiles(ResultFiles, tree[i].path)

(* C13 witness: the walk met a directory it could not list, then a file     *)
(* that had vanished, then a file that is in the result                     *)
C13_Witness ==
    /\ pc = "done"
    /\ \E i, j, k \in 1..Len(tree) :
          /\ i < j /\ j < k
          /\ tree[i].path.dir = LockedDir
          /\ ~tree[j].stat_ok
          /\ InFiles(ResultFiles, tree[k].path)

(* C14: a collected file that cannot be read has duplicate group 0 in       *)
(* dup_map, in its FileInfo and in the result, where it is returned; the    *)
(* groups are the sets of two or more readable copies, and                  *)
(* total_dup_reclaim counts these alone.                                    *)
C14_UnreadableNotGrouped ==
    pc \in {"score", "finish", "done"} =>
        /\ \A i \in 1..Len(raw_files) :
              ~Readable(raw_files[i]) =>
                  /\ DupGid(dup_map, raw_files[i].path) = 0
                  /\ Scored => scored[i].duplicate_group = 0
                  /\ (pc = "done" /\ ~HasProtectedExtension(raw_files[i].path)) =>
                        \E j \in 1..Len(ResultFiles) :
                            /\ ResultFiles[j].path = raw_files[i].path
                            /\ ResultFiles[j].duplicate_group = 0
        /\ duplicates_found = Cardinality(TrueGroups)
        /\ \A G \in TrueGroups : \E g \in 1..duplicates_found :
              { raw_files[i].path : i \in G } = { q \in DOMAIN dup_map : dup_map[q] = g }
        /\ total_dup_reclaim = ReclaimOfGroups(TrueGroups)

(* C14 witness: a group of two copies, and a third file of their size that  *)
(* cannot be read, all three in the result                                  *)
C14_Witness ==
    /\ pc = "done" /\ duplicates_found = 1
    /\ \E i, j, k \in 1..Len(raw_files) :
          /\ i # j
          /\ scored[i].duplicate_group = 1 /\ scored[j].duplicate_group = 1
          /\ ~Readable(raw_files[k])
          /\ raw_files[k].size = raw_files[i].size
          /\ InFiles(ResultFiles, raw_files[k].path)

(* C18, as claimed: the files collected are exactly the files whose         *)
(* directory is at a depth of at most max_depth and not under a protected   *)
(* directory, whose stat succeeds and whose size is at least min_size_mb    *)
(* MiB.                                                                     *)
C18_CollectorExact ==
    WalkDone => PathsOf(raw_files) = PathsOf(SelectSeq(tree, EligibleAsClaimed))

(* C18, amended: the files collected are exactly, each once and in walk     *)
(* order, the files whose directory can be listed, is at a depth of at most *)
(* max_depth and, its path put in lower case, is not under a protected      *)
(* directory, whose stat succeeds and whose size is at least min_size_mb    *)
(* MiB; the record holds the path, the size, the mtime and the suffix in    *)
(* lower case.                                                              *)
C18_CollectorExactIgnoringCase ==
    (WalkDone /\ root_ok) =>
        LET eligible == SelectSeq(tree, EligibleAmended)
        IN  /\ Len(raw_files) = Len(eligible)
            /\ \A k \in 1..Len(eligible) :
                  /\ raw_files[k].path = eligible[k].path
                  /\ raw_files[k].size = eligible[k].size
                  /\ raw_files[k].mtime = eligible[k].mtime
                  /\ raw_files[k].ext = Lower(eligible[k].path.ext)

(* C18 witness: a walk that collected a file of a directory at the depth    *)
(* max_depth and left out a file one level below, a file under /etc, a file *)
(* under /ETC                                                               *)
C18_Witness ==
    /\ WalkDone
    /\ \E i \in 1..Len(tree) : tree[i].path.dir = EdgeDir /\ InRaw(tree[i].path)
    /\ \E i \in 1..Len(tree) : tree[i].path.dir = DeepDir /\ ~InRaw(tree[i].path)
    /\ \E i \in 1..Len(tree) : tree[i].path.dir \in {EtcDir, EtcUpperDir}

(* C16, as claimed: the scan of a root whose only eligible file is old.tmp  *)
(* returns that file alone, with the category "cache_temp" and a score of   *)
(* at least 25.                                                             *)
C16_ScenarioA ==
    pc = "done" =>
        /\ Len(ResultFiles) = 1
        /\ ResultFiles[1].path = tree[1].path
        /\ ResultFiles[1].category = "cache_temp"
        /\ ResultFiles[1].score >= 25

(* C17: delete_contents(path) creates nothing and removes only entries      *)
(* strictly under path, never path itself; when path does not exist no step *)
(* changes the file system and the result is (0, 0, 0); when it has         *)
(* returned from a directory, every file left under path is one whose       *)
(* unlink failed, each counted once in errors, and every other file under   *)
(* path is gone.                                                            *)
C17_DeleteContents ==
    /\ [][/\ fs' \subseteq fs
          /\ \A e \in fs \ fs' : StrictlyUnder(e.path, Target)
          /\ ~Exists(fs, Target) => fs' = fs]_vars
    /\ [](del_pc = "done" =>
            /\ ~Exists(fs, Target) => delete_result = <<0, 0, 0>>
            /\ IsDir(fs, Target) =>
                  /\ \A e \in FilesUnder(fs, Target) : e.locked
                  /\ delete_result[3] = Cardinality(FilesUnder(fs, Target)))

(* C17 witness: delete_contents has returned; the unlink of                 *)
(* /tmp/junk/sub/c failed, and a file of /tmp/junk, reached later, was      *)
(* deleted; the file beside the target is still there                       *)
C17_Witness ==
    /\ del_pc = "done"
    /\ \E e \in fs : e.path = Target \o <<"sub", "c">> /\ e.locked
    /\ ~Exists(fs, Target \o <<"sub", "deep">>)
    /\ deleted_dirs = 0
    /\ delete_result[1] >= 1 /\ delete_result[3] = 1
    /\ Exists(fs, <<"tmp", "keep">>)

(* C19, as claimed: two collected files of one size whose first 4096 bytes  *)
(* agree and, when they are larger than 8192 bytes, whose last 4096 bytes   *)
(* agree, are in the same duplicate group.                                  *)
C19_HashOfHeadAndTail ==
    HashingDone =>
        \A i, j \in 1..Len(raw_files) :
            (/\ i # j
             /\ raw_files[i].size = raw_files[j].size
             /\ Readable(raw_files[i]) /\ Readable(raw_files[j])
             /\ AgreeOnHeadAndTail(ContentOf(raw_files[i]), ContentOf(raw_files[j])))
            => InSameGroup(raw_files[i].path, raw_files[j].path)

(* C19, amended: two collected files of one size are in the same duplicate  *)
(* group when they agree on the bytes that are hashed: the whole file when  *)
(* it has 8192 bytes or less, the first 4096 and the last 4096 bytes when   *)
(* it is larger.                                                            *)
C19_HashOfBlocksRead ==
    HashingDone =>
        \A i, j \in 1..Len(raw_files) :
            (/\ i # j
             /\ raw_files[i].size = raw_files[j].size
             /\ Readable(raw_files[i]) /\ Readable(raw_files[j])
             /\ AgreeOnBlocksHashed(ContentOf(raw_files[i]), ContentOf(raw_files[j])))
            => InSameGroup(raw_files[i].path, raw_files[j].path)

(* C19 witness: two files of three blocks that differ between the first and *)
(* the last block are in one group                                          *)
C19_Witness ==
    /\ pc = "done" /\ Len(raw_files) = 2
    /\ raw_files[1].size = 3 /\ raw_files[2].size = 3
    /\ ContentOf(raw_files[1])[2] # ContentOf(raw_files[2])[2]
    /\ InSameGroup(raw_files[1].path, raw_files[2].path)

(* C20, as claimed: the statistics add to a score, for the size and for the *)
(* modification age alike, min(round(5 z), 15) when z > 1 and nothing       *)
(* otherwise; at most 30 in all.                                            *)
C20_StatisticalRounded ==
    Scored =>
        \A i \in 1..Len(raw_files) :
            /\ StatisticalPart(i)
                  = RoundedPoints(SizeValues, i) + RoundedPoints(AgeValues, i)
            /\ StatisticalPart(i) <= 30

(* C20, amended: the statistics add, for the size and for the modification  *)
(* age alike, min(int(5 z), 15) when z > 1, int cutting off the fraction,   *)
(* and nothing when z <= 1; at most 30 in all.                              *)
C20_StatisticalTruncated ==
    Scored =>
        \A i \in 1..Len(raw_files) :
            /\ StatisticalPart(i)
                  = TruncatedPoints(SizeValues, i) + TruncatedPoints(AgeValues, i)
            /\ StatisticalPart(i) <= 30

(* C20 witness: a scan in which a size earned the 15 points of the cap, an  *)
(* age earned points below 15 where rounding would have given one more,     *)
(* and a file with z <= 1 earned none                                       *)
C20_Witness ==
    /\ pc = "done"
    /\ \E i \in 1..Len(raw_files) :
          /\ TruncatedPoints(SizeValues, i) = 15
          /\ ~IsFiveZTruncated(SizeValues, i, 15)
    /\ \E j \in 1..Len(raw_files) :
          /\ TruncatedPoints(AgeValues, j) \in 1..14
          /\ RoundedPoints(AgeValues, j) = TruncatedPoints(AgeValues, j) + 1
    /\ \E k \in 1..Len(raw_files) :
          /\ ~ZExceedsOne(AgeValues, k) /\ ~ZExceedsOne(SizeValues, k)
          /\ StatisticalPart(k) = 0

----------------------------------------------------------------------------
(* The score without the points of the rules and of the duplicate test is   *)
(* defined for the files that are not protected: a protected file has 0     *)
Unprotected(i) == scored[i].safety # PROTECTED

StatisticsDone == pc \in {"dups", "score", "finish", "done"} /\ stats # NoStats

(* C21: the standard deviation used for the z-scores is never zero: it is   *)
(* 1.0 exactly when there is one file or all the sizes (resp. ages) are     *)
(* equal, and positive otherwise; a dimension whose deviation was floored   *)
(* adds nothing to the score of any file.                                   *)
C21_StdDevFloored ==
    StatisticsDone =>
        /\ stats.size.sd_is_one <=> Floored(SizeValues)
        /\ stats.age.sd_is_one <=> Floored(AgeValues)
        /\ ~stats.size.sd_is_one => stats.size.ss > 0
        /\ ~stats.age.sd_is_one => stats.age.ss > 0
        /\ Scored =>
              \A i \in 1..Len(raw_files) :
                  Unprotected(i) =>
                      /\ Floored(SizeValues)
                            => StatisticalPart(i) = TruncatedPoints(AgeValues, i)
                      /\ Floored(AgeValues)
                            => StatisticalPart(i) = TruncatedPoints(SizeValues, i)
                      /\ Floored(SizeValues) /\ Floored(AgeValues)
                            => StatisticalPart(i) = 0

(* C21 witness: a finished scan of several files of one size, whose ages    *)
(* differ: an age earned points, the sizes none                             *)
C21_Witness ==
    /\ pc = "done"
    /\ Len(raw_files) >= 2
    /\ Floored(SizeValues) /\ ~Floored(AgeValues)
    /\ stats.size.sd_is_one /\ ~stats.age.sd_is_one
    /\ \E i \in 1..Len(raw_files) : Unprotected(i) /\ StatisticalPart(i) > 0

----------------------------------------------------------------------------
(* What the duplicate test added to the score of the i-th collected file:   *)
(* its score less the points of the rules and of the statistics             *)
DuplicatePart(i) ==
    scored[i].score
    - RulePoints(raw_files[i].ext, PartsLower(raw_files[i].path))
    - (TruncatedPoints(SizeValues, i) + TruncatedPoints(AgeValues, i))

HasReason(i, text) == \E k \in 1..Len(scored[i].reasons) : scored[i].reasons[k] = text

GotBonus(i) ==
    /\ HasReason(i, "Duplicate copy (not newest)")
    /\ ~HasReason(i, "Duplicate (newest copy - kept)")
    /\ Unprotected(i) => DuplicatePart(i) = 20

KeptAsNewest(i) ==
    /\ HasReason(i, "Duplicate (newest copy - kept)")
    /\ ~HasReason(i, "Duplicate copy (not newest)")
    /\ Unprotected(i) => DuplicatePart(i) = 0

(* C23: in a duplicate group of N members the N - 1 members that are not    *)
(* the newest get the 20 points of the duplicate bonus and the rationale of *)
(* a duplicate copy; the newest gets no points and the rationale of the     *)
(* newest copy; a file in no group gets no points and neither rationale.    *)
(* (The points show in the score of the files that are not protected.)      *)
C23_DuplicateBonus ==
    Scored =>
        /\ \A g \in 1..duplicates_found :
              /\ Cardinality({ i \in GroupMembers(g) : ~scored[i].is_newest_in_group })
                    = Cardinality(GroupMembers(g)) - 1
              /\ \A i \in GroupMembers(g) :
                    IF scored[i].is_newest_in_group THEN KeptAsNewest(i) ELSE GotBonus(i)
        /\ \A i \in 1..Len(scored) :
              scored[i].duplicate_group = 0 =>
                  /\ ~HasReason(i, "Duplicate copy (not newest)")
                  /\ ~HasReason(i, "Duplicate (newest copy - kept)")
                  /\ Unprotected(i) => DuplicatePart(i) = 0

(* C23 witness: a finished scan with a group of two files that are not      *)
(* protected, one with the bonus and one kept as the newest, and a third    *)
(* file in no group                                                         *)
C23_Witness ==
    /\ pc = "done"
    /\ \E i, j \in GroupMembers(1) :
          /\ Unprotected(i) /\ Unprotected(j)
          /\ ~scored[i].is_newest_in_group /\ DuplicatePart(i) = 20
          /\ scored[j].is_newest_in_group /\ DuplicatePart(j) = 0
    /\ \E k \in 1..Len(scored) : scored[k].duplicate_group = 0 /\ Unprotected(k)

----------------------------------------------------------------------------
(* The collected files that dup_map puts in group g *)
MembersOf(g) ==
    { i \in 1..Len(raw_files) :
        raw_files[i].path \in DOMAIN dup_map /\ dup_map[raw_files[i].path] = g }

IdsInUse == { dup_map[p] : p \in DOMAIN dup_map }

(* Where the scan first met the size of the group, and its first member *)
FirstOfSize(g) ==
    Minimum({ i \in 1..Len(raw_files) :
                \E m \in MembersOf(g) : raw_files[i].size = raw_files[m].size })

FirstMember(g) == Minimum(MembersOf(g))

DiscoveredBefore(g, h) ==
    \/ FirstOfSize(g) < FirstOfSize(h)
    \/ FirstOfSize(g) = FirstOfSize(h) /\ FirstMember(g) < FirstMember(h)

(* C25: the duplicate groups are numbered 1, 2, ... in the order the scan   *)
(* discovers them: the ids in use are exactly 1..duplicates_found, every id *)
(* has at least two members, all of one size and of one partial hash, and   *)
(* every file has at most one id (dup_map holds one id per path).           *)
C25_GroupIds ==
    HashingDone =>
        /\ IdsInUse = 1..duplicates_found
        /\ DOMAIN newest_in_group = 1..duplicates_found
        /\ \A g \in 1..duplicates_found :
              /\ Cardinality(MembersOf(g)) >= 2
              /\ \A i, j \in MembersOf(g) :
                    /\ raw_files[i].size = raw_files[j].size
                    /\ Readable(raw_files[i]) /\ Readable(raw_files[j])
                    /\ AgreeOnBlocksHashed(ContentOf(raw_files[i]), ContentOf(raw_files[j]))
        /\ \A g, h \in 1..duplicates_found : g < h => DiscoveredBefore(g, h)

(* C25 witness: a finished scan with three groups, two of them of files of  *)
(* one size that differ in content, and a file in no group                  *)
C25_Witness ==
    /\ pc = "done"
    /\ duplicates_found = 3
    /\ \E g, h \in 1..3 :
          /\ g < h
          /\ \E i \in MembersOf(g), j \in MembersOf(h) :
                /\ raw_files[i].size = raw_files[j].size
                /\ ContentOf(raw_files[i]) # ContentOf(raw_files[j])
    /\ \E k \in 1..Len(raw_files) : raw_files[k].path \notin DOMAIN dup_map

----------------------------------------------------------------------------
(* C26: the space reported as reclaimable from duplicates never exceeds the *)
(* total reported as reclaimable, also when members of a group have a       *)
(* protected extension and are left out of the result.                      *)
C26_DuplicateWithinTotal ==
    Returned =>
        outcome.result.duplicate_space_reclaimable <= outcome.result.total_reclaimable

----------------------------------------------------------------------------
(* The collected files that are neither under a protected directory nor of  *)
(* a protected extension                                                    *)
Returnable ==
    { i \in 1..Len(raw_files) :
        /\ ~LiesUnderProtectedDir(raw_files[i].path)
        /\ ~HasProtectedExtension(raw_files[i].path) }

(* files has every returnable file once, with its path and size, and        *)
(* nothing else                                                             *)
FilesAreTheReturnable ==
    /\ \A i \in Returnable :
          Cardinality({ j \in 1..Len(ResultFiles) :
                          ResultFiles[j].path = raw_files[i].path }) = 1
    /\ \A j \in 1..Len(ResultFiles) :
          \E i \in Returnable :
              /\ ResultFiles[j].path = raw_files[i].path
              /\ ResultFiles[j].size = raw_files[i].size

ReportsReturned == "files_returned" \in DOMAIN outcome.result

(* C27, as claimed: files holds every collected file that is not protected  *)
(* exactly once, with its path and size, and nothing else; scan_stats has   *)
(* files_returned = len(files) <= files_scanned.                            *)
C27_FilesExact ==
    Returned =>
        /\ FilesAreTheReturnable
        /\ ReportsReturned
        /\ outcome.result.files_returned = Len(ResultFiles)
        /\ outcome.result.files_returned <= outcome.result.files_scanned

(* C27, amended: ...; when at least one file was collected, scan_stats has  *)
(* files_returned = len(files) <= files_scanned = the number collected;     *)
(* when none was, files is empty and scan_stats has files_scanned = 0 only. *)
C27_FilesExactWhenCollected ==
    Returned =>
        /\ FilesAreTheReturnable
        /\ outcome.result.files_scanned = Len(raw_files)
        /\ IF Len(raw_files) > 0
           THEN /\ ReportsReturned
                /\ outcome.result.files_returned = Len(ResultFiles)
                /\ outcome.result.files_returned <= outcome.result.files_scanned
           ELSE ResultFiles = <<>> /\ ~ReportsReturned

(* C27 witness: a result with fewer files than were collected: a protected  *)
(* file was left out, a file of score 0 and a file with points are returned *)
C27_Witness ==
    /\ Returned
    /\ Len(raw_files) = 3
    /\ Cardinality(Returnable) = 2
    /\ outcome.result.files_returned = 2
    /\ \E j, k \in 1..Len(ResultFiles) :
          ResultFiles[j].score = 0 /\ ResultFiles[k].score > 0

----------------------------------------------------------------------------
(* The files of the result that have category c, by their place in files *)
FilesOfCategory(c) == { j \in 1..Len(ResultFiles) : ResultFiles[j].category = c }

RECURSIVE SizeOfFilesAt(_)
SizeOfFilesAt(J) ==
    IF J = {} THEN 0
    ELSE LET j == CHOOSE x \in J : TRUE
         IN  ResultFiles[j].size + SizeOfFilesAt(J \ {j})

RECURSIVE SummaryCounts(_, _)
SummaryCounts(cs, keys) ==
    IF keys = {} THEN 0
    ELSE LET c == CHOOSE x \in keys : TRUE
         IN  cs[c].count + SummaryCounts(cs, keys \ {c})

RECURSIVE SummarySizes(_, _)
SummarySizes(cs, keys) ==
    IF keys = {} THEN 0
    ELSE LET c == CHOOSE x \in keys : TRUE
         IN  cs[c].size + SummarySizes(cs, keys \ {c})

(* C30: category_summary agrees with files: its keys are the categories of  *)
(* the files, each with the number and the total size of the files of that  *)
(* category; the counts add up to len(files), the sizes to                  *)
(* total_reclaimable.                                                       *)
C30_CategorySummary ==
    Returned =>
        LET cs == outcome.result.category_summary
        IN  /\ DOMAIN cs = { ResultFiles[j].category : j \in 1..Len(ResultFiles) }
            /\ \A c \in DOMAIN cs :
                  /\ cs[c].count = Cardinality(FilesOfCategory(c))
                  /\ cs[c].size = SizeOfFilesAt(FilesOfCategory(c))
            /\ SummaryCounts(cs, DOMAIN cs) = Len(ResultFiles)
            /\ SummarySizes(cs, DOMAIN cs) = outcome.result.total_reclaimable

(* C30 witness: a result with two categories, one of them with two files of *)
(* different sizes                                                          *)
C30_Witness ==
    /\ Returned
    /\ Cardinality(DOMAIN outcome.result.category_summary) = 2
    /\ \E c \in DOMAIN outcome.result.category_summary :
          /\ outcome.result.category_summary[c].count = 2
          /\ \E j, k \in FilesOfCategory(c) : ResultFiles[j].size # ResultFiles[k].size

----------------------------------------------------------------------------
(* The four rule-based signals, for the i-th collected file.  Segments and  *)
(* paths are compared in lower case.                                        *)
SegmentsOf(i) == PartsLower(raw_files[i].path)

ExtensionSignal(i) ==
    LET ext == raw_files[i].ext
    IN  \/ ext \in JUNK_EXTENSIONS
        \/ /\ ExtensionCategory(ext) # ""
           /\ CategorySafety(ExtensionCategory(ext)) = SAFE
        \/ ext \in ArchiveExtensions

DownloadSignal(i) ==
    \E k \in 1..Len(SegmentsOf(i)) : SegmentsOf(i)[k] \in JUNK_FOLDER_NAMES

TempSignal(i) ==
    \E k \in 1..Len(SegmentsOf(i)) : SegmentsOf(i)[k] \in TEMP_FOLDER_NAMES

(* The known junk directories the file lies under *)
JunkDirsAbove(i) ==
    { k \in 1..Len(get_known_junk_dirs) :
        IsPrefix(LowerAll(get_known_junk_dirs[k].path), SegmentsOf(i)) }

JunkDirSignal(i) == JunkDirsAbove(i) # {}

NoRuleSignal(i) ==
    ~ExtensionSignal(i) /\ ~DownloadSignal(i) /\ ~TempSignal(i) /\ ~JunkDirSignal(i)

----------------------------------------------------------------------------
(* What the rules added to the score of the i-th collected file: its score  *)
(* less the points of the statistics and of the duplicate test              *)
RulePart(i) ==
    scored[i].score
    - (TruncatedPoints(SizeValues, i) + TruncatedPoints(AgeValues, i))
    - (IF scored[i].duplicate_group > 0 /\ ~scored[i].is_newest_in_group THEN 20 ELSE 0)

(* The extension check: 15 for a junk extension, else 10 for an extension   *)
(* of a category of the safe tier, else 5 for one of the six archive        *)
(* extensions                                                               *)
ExtensionCheck(i) ==
    LET ext == raw_files[i].ext
    IN  IF ext \in JUNK_EXTENSIONS THEN 15
        ELSE IF ExtensionCategory(ext) # "" /\ CategorySafety(ExtensionCategory(ext)) = SAFE
             THEN 10
        ELSE IF ext \in {".iso", ".zip", ".rar", ".7z", ".tar", ".gz"} THEN 5
        ELSE 0

FourChecks(i) ==
    ExtensionCheck(i)
    + (IF DownloadSignal(i) THEN 10 ELSE 0)
    + (IF TempSignal(i) THEN 15 ELSE 0)
    + (IF JunkDirSignal(i) THEN 10 ELSE 0)

(* C24: the rule-based part of a score is the sum of four checks that do    *)
(* not exclude one another: the extension (15, else 10, else 5), 10 for a   *)
(* download-like segment, 15 for a temp/cache-like segment, 10 for a known  *)
(* junk directory; it is at most 50.                                        *)
C24_RuleBasedSum ==
    Scored =>
        \A i \in 1..Len(scored) :
            Unprotected(i) => RulePart(i) = FourChecks(i) /\ RulePart(i) <= 50

(* C24 witness: a file on which all four checks fire, 50 points, next to a  *)
(* file with the 10 points of a safe-tier extension alone                   *)
C24_Witness ==
    /\ pc = "done"
    /\ \E i, j \in 1..Len(scored) :
          /\ ExtensionCheck(i) = 15 /\ DownloadSignal(i) /\ TempSignal(i) /\ JunkDirSignal(i)
          /\ RulePart(i) = 50
          /\ ExtensionCheck(j) = 10 /\ RulePart(j) = 10

(* The category the first-match order gives the i-th collected file *)
FirstMatchCategory(i) ==
    IF scored[i].duplicate_group > 0 /\ ~scored[i].is_newest_in_group THEN "duplicate"
    ELSE IF JunkDirSignal(i) THEN get_known_junk_dirs[Minimum(JunkDirsAbove(i))].category
    ELSE IF ExtensionCategory(raw_files[i].ext) # "" THEN ExtensionCategory(raw_files[i].ext)
    ELSE IF DownloadSignal(i) THEN "old_download"
    ELSE IF TempSignal(i) THEN "cache_temp"
    ELSE "large_unused"

(* C22: the category is the first that applies of: "duplicate" for a copy   *)
(* that is not the newest of its group, the category of the known junk      *)
(* directory the file lies under, the category of its extension in the      *)
(* catalog, "old_download" for a download-like segment, "cache_temp" for a  *)
(* temp/cache-like segment, "large_unused".  The newest copy of a group is  *)
(* never "duplicate".                                                       *)
C22_CategoryOrder ==
    Scored =>
        \A i \in 1..Len(scored) :
            /\ scored[i].category = FirstMatchCategory(i)
            /\ scored[i].is_newest_in_group => scored[i].category # "duplicate"

(* C22 witness: two copies of an archive under /var/log: the older one is   *)
(* "duplicate", the newest takes the category of the directory and not that *)
(* of its extension                                                         *)
C22_Witness ==
    /\ pc = "done"
    /\ \E i, j \in GroupMembers(1) :
          /\ raw_files[i].ext = ".zip" /\ raw_files[j].ext = ".zip"
          /\ JunkDirSignal(i) /\ JunkDirSignal(j)
          /\ scored[i].category = "duplicate"
          /\ scored[j].is_newest_in_group /\ scored[j].category = "log_file"

----------------------------------------------------------------------------
(* ScanResult.files of ml_scan for the tree t, as a function of t: the      *)
(* phases of the scan one after the other                                   *)
ScanFiles(t, min_size) ==
    LET raw == Walk(t, min_size)
        st == ComputeStats(raw)
        buckets == DuplicateBuckets(t, raw)
        dm == DupMapOf(buckets)
        nig == [g \in 1..Len(buckets) |-> Newest(buckets[g]).path]
        fis == [i \in 1..Len(raw) |-> ScoreFile(raw[i], st, dm, nig)]
    IN  IF NothingCollected(raw) THEN <<>> ELSE SortByScore(SelectSeq(fis, Kept))

(* The tree with the access times wiped out *)
AtimesErased(t) == [i \in 1..Len(t) |-> [t[i] EXCEPT !.atime = 0]]

(* What the result says of each file, but for the rationale and the dates *)
Verdicts(fis) ==
    [i \in 1..Len(fis) |->
        [path |-> fis[i].path, size |-> fis[i].size, score |-> fis[i].score,
         safety |-> fis[i].safety, category |-> fis[i].category,
         confidence |-> fis[i].confidence,
         duplicate_group |-> fis[i].duplicate_group,
         is_newest_in_group |-> fis[i].is_newest_in_group]]

====
